---- MODULE Spec2Model ----
(***************************************************************************)
(* Model of the selection-expression language of ycbvideo: the parser      *)
(* (parsing.py), the element selectors (selectors.py), the descriptor      *)
(* resolver (descriptor_creation.py) and the frame iterator (loader.py).   *)
(*                                                                         *)
(* Python strings are sequences of one-character strings, so that          *)
(* splitting, digit tests, zero padding and lexicographic sorting are      *)
(* computed and not assumed.                                               *)
(***************************************************************************)
EXTENDS Integers, Sequences, FiniteSets, TLC

VARIABLES
    pInput,     \* Parser.parse: how the caller wrote the expression
    pExpr,      \* Parser.parse: the expression handed to it
    pResult,    \* Parser.parse: its outcome, NotRun before the call
    sAvail,     \* ElementSelector.select: the list `elements` handed to it
    sSel,       \* ElementSelector.select: the selector object
    sResult,    \* ElementSelector.select: its outcome, NotRun before the call
    dataset,    \* the dataset directory: the files of each frame sequence in it
    expressions, \* get_descriptors: the expressions handed to it
    pc,         \* get_descriptors: where the call stands
    selectors,  \* get_descriptors: the parsed selectors
    descriptors, \* get_descriptors: the descriptors collected so far
    calls,      \* the selectors (by position) handed to _create_descriptors_from_selector
    result,     \* get_descriptors, frames: the outcome of the call, NotRun before it ends
    nexts,      \* the outcomes of the calls of next() on the generator of frames
    random_state, \* the state of the generator shared by the functions of module random
    memo        \* DatasetAccess: the frame sets memoised for the frame sequences read

parserVars == <<pInput, pExpr, pResult>>

selectVars == <<sAvail, sSel, sResult>>

resolverVars == <<dataset, expressions, pc, selectors, descriptors, calls, result>>

vars == <<parserVars, selectVars, resolverVars, nexts, random_state, memo>>

-----------------------------------------------------------------------------
(* Python values *)

\* Python's None; no string of the model equals it
None == <<"None">>

\* the value of a call that has not been made yet
NotRun == [exc |-> "NotRun"]

\* truthiness of an Optional[str]: None and '' are falsy
Truthy(x) == x # None /\ x # <<>>

Digit == {"0", "1", "2", "3", "4", "5", "6", "7", "8", "9"}

DigitVal(c) ==
    CASE c = "0" -> 0 [] c = "1" -> 1 [] c = "2" -> 2 [] c = "3" -> 3
      [] c = "4" -> 4 [] c = "5" -> 5 [] c = "6" -> 6 [] c = "7" -> 7
      [] c = "8" -> 8 [] c = "9" -> 9

DigitChar(n) ==
    CASE n = 0 -> "0" [] n = 1 -> "1" [] n = 2 -> "2" [] n = 3 -> "3"
      [] n = 4 -> "4" [] n = 5 -> "5" [] n = 6 -> "6" [] n = 7 -> "7"
      [] n = 8 -> "8" [] n = 9 -> "9"

\* code points of the characters the model uses, for the ordering of sorted()
Ord(c) ==
    CASE c = "\n" -> 10 [] c = "*" -> 42 [] c = "," -> 44 [] c = "-" -> 45
      [] c = "/" -> 47 [] c \in Digit -> 48 + DigitVal(c) [] c = ":" -> 58
      [] c = "[" -> 91 [] c = "]" -> 93 [] c = "_" -> 95 [] c = "a" -> 97
      [] c = "d" -> 100 [] c = "n" -> 110 [] c = "s" -> 115 [] c = "t" -> 116
      [] c = "x" -> 120 [] c = "y" -> 121

\* str.isdigit()
isdigit(s) == Len(s) > 0 /\ \A i \in 1..Len(s) : s[i] \in Digit

RECURSIVE DigitsToInt(_)
DigitsToInt(s) ==
    IF s = <<>> THEN 0
    ELSE 10 * DigitsToInt(SubSeq(s, 1, Len(s) - 1)) + DigitVal(s[Len(s)])

\* int(s) for the strings the patterns let through: digits with an optional minus
int(s) == IF s[1] = "-" THEN 0 - DigitsToInt(Tail(s)) ELSE DigitsToInt(s)

RECURSIVE IntToDigits(_)
IntToDigits(n) ==
    IF n < 10 THEN <<DigitChar(n)>>
    ELSE Append(IntToDigits(n \div 10), DigitChar(n % 10))

RECURSIVE ZeroFill(_, _)
ZeroFill(s, width) == IF Len(s) >= width THEN s ELSE ZeroFill(<<"0">> \o s, width)

\* "{:0<width>d}".format(n)
format(n, width) == ZeroFill(IntToDigits(n), width)

\* s.count(c)
count(s, c) == Cardinality({i \in 1..Len(s) : s[i] = c})

\* s.split(c): the pieces between the occurrences of c, empty pieces kept
RECURSIVE split(_, _)
split(s, c) ==
    IF \A i \in 1..Len(s) : s[i] # c THEN <<s>>
    ELSE LET k == CHOOSE i \in 1..Len(s) : s[i] = c /\ \A j \in 1..(i - 1) : s[j] # c
         IN <<SubSeq(s, 1, k - 1)>> \o split(SubSeq(s, k + 1, Len(s)), c)

\* a < b in Python's string ordering
RECURSIVE StrLess(_, _)
StrLess(a, b) ==
    IF b = <<>> THEN FALSE
    ELSE IF a = <<>> THEN TRUE
    ELSE IF a[1] # b[1] THEN Ord(a[1]) < Ord(b[1])
    ELSE StrLess(Tail(a), Tail(b))

\* sorted(S) of a collection of distinct strings
RECURSIVE sorted(_)
sorted(S) ==
    IF S = {} THEN <<>>
    ELSE LET m == CHOOSE x \in S : \A y \in S \ {x} : StrLess(x, y)
         IN <<m>> \o sorted(S \ {m})

\* the elements of a list
Elems(s) == {s[i] : i \in 1..Len(s)}

RECURSIVE Cat(_)
Cat(ss) == IF ss = <<>> THEN <<>> ELSE Head(ss) \o Cat(Tail(ss))

DATA == <<"d", "a", "t", "a">>
DATA_SYN == <<"d", "a", "t", "a", "_", "s", "y", "n">>

-----------------------------------------------------------------------------
(* Outcomes of calls: a returned value or a raised exception *)

Return(v) == [exc |-> "None", none |-> FALSE, value |-> v]

\* a call that returns None where it could return an object
ReturnNone == [exc |-> "None", none |-> TRUE]

Raise(e) == [exc |-> e]

Raised(r) == r.exc # "None"

-----------------------------------------------------------------------------
(* utils.normalize_element / normalize_optional_element *)

\* canonical width of an identifier: 4 for a sequence, 6 for a frame
SequenceWidth == 4

FrameWidth == 6

max_length(kind) == IF kind = "sequence" THEN SequenceWidth ELSE FrameWidth

\* utils.normalize_element: zero-pads a digit string that fits the width of
\* its axis and fails on every other token
normalize_element(element, kind) ==
    IF isdigit(element) /\ Len(element) <= max_length(kind)
    THEN Return(format(int(element), max_length(kind)))
    ELSE Raise("ValueError")

\* utils.normalize_optional_element: None passes through
normalize_optional_element(element, kind) ==
    IF element = None THEN Return(None) ELSE normalize_element(element, kind)

-----------------------------------------------------------------------------
(* selectors.py: construction *)

SingleElementSelector(kind, expression, element) ==
    [type |-> "single", kind |-> kind, expression |-> expression, element |-> element]

ListSelector(kind, expression, elements) ==
    [type |-> "list", kind |-> kind, expression |-> expression, elements |-> elements]

StarSelector(kind) == [type |-> "star", kind |-> kind]

DataSelector == [type |-> "data", kind |-> "sequence"]

DataSynSelector == [type |-> "data_syn", kind |-> "sequence"]

\* a check that lets a step of zero through
check_range_elementsAnyStep(start, stop, step) ==
    IF Truthy(start) /\ Truthy(stop)
    THEN IF step > 0 /\ int(start) > int(stop) THEN "ValueError"
         ELSE IF step < 0 /\ int(start) < int(stop) THEN "ValueError"
         ELSE "None"
    ELSE "None"

\* a check that does not compare the boundaries
check_range_elementsAnyOrder(start, stop, step) ==
    IF step = 0 THEN "ValueError" ELSE "None"

\* RangeSelector.check_range_elements: the exception it raises, "None" if none
check_range_elements(start, stop, step) ==
    IF step = 0 THEN "ValueError"
    ELSE IF Truthy(start) /\ Truthy(stop)
    THEN IF step > 0 /\ int(start) > int(stop) THEN "ValueError"
         ELSE IF step < 0 /\ int(start) < int(stop) THEN "ValueError"
         ELSE "None"
    ELSE "None"

\* RangeSelector.__init__
RangeSelector(kind, expression, start, stop, step) ==
    IF check_range_elements(start, stop, step) # "None"
    THEN Raise(check_range_elements(start, stop, step))
    ELSE Return([type |-> "range", kind |-> kind, expression |-> expression,
                 start |-> start, stop |-> stop, step |-> step])

-----------------------------------------------------------------------------
(* parsing.py: Parser *)

\* _ELEMENT_TEMPLATE [0-9]{1,6}: the most digits the patterns let through
ElementTemplateMax == 6

\* a full match of [0-9]{1,6}
MatchesElement(s) == isdigit(s) /\ Len(s) <= ElementTemplateMax

\* a full match of -?[0-9]{1,6}
MatchesSignedElement(s) ==
    \/ MatchesElement(s)
    \/ Len(s) > 1 /\ s[1] = "-" /\ MatchesElement(Tail(s))

\* where '$' can match: at the end and before a line feed that ends the string
DollarCuts(s) ==
    {s} \cup (IF Len(s) > 0 /\ s[Len(s)] = "\n" THEN {SubSeq(s, 1, Len(s) - 1)} ELSE {})

\* t is '[' elements ']' with elements a comma-separated list of [0-9]{1,6}
IsBracketedList(t) ==
    /\ Len(t) >= 2
    /\ t[1] = "["
    /\ t[Len(t)] = "]"
    /\ LET items == split(SubSeq(t, 2, Len(t) - 1), ",")
       IN \A i \in 1..Len(items) : MatchesElement(items[i])

\* _LIST_PATTERN.match(expression): group 'elements', or None without a match
ListPatternMatch(expression) ==
    IF \E t \in DollarCuts(expression) : IsBracketedList(t)
    THEN LET t == CHOOSE u \in DollarCuts(expression) : IsBracketedList(u)
         IN SubSeq(t, 2, Len(t) - 1)
    ELSE None

\* t is start? ':' stop? (':' step?)?
IsRangeText(t) ==
    LET parts == split(t, ":")
    IN /\ Len(parts) \in {2, 3}
       /\ parts[1] = <<>> \/ MatchesElement(parts[1])
       /\ parts[2] = <<>> \/ MatchesElement(parts[2])
       /\ Len(parts) = 3 => (parts[3] = <<>> \/ MatchesSignedElement(parts[3]))

\* a group that did not take part in the match is None
Group(parts, i) == IF i > Len(parts) \/ parts[i] = <<>> THEN None ELSE parts[i]

\* _RANGE_PATTERN.match(expression): whether it matches
RangePatternMatches(expression) == \E t \in DollarCuts(expression) : IsRangeText(t)

\* the groups start, stop and step of the match
RangePatternGroups(expression) ==
    LET t == CHOOSE u \in DollarCuts(expression) : IsRangeText(u)
        parts == split(t, ":")
    IN [start |-> Group(parts, 1), stop |-> Group(parts, 2), step |-> Group(parts, 3)]

\* Parser._single_element_expression
single_element_expression(expression, kind) ==
    IF isdigit(expression) /\ Len(expression) <= max_length(kind)
    THEN LET normalized_element == normalize_element(expression, kind)
         IN IF Raised(normalized_element) THEN normalized_element
            ELSE Return(SingleElementSelector(kind, expression, normalized_element.value))
    ELSE ReturnNone

\* Parser._list_expression
list_expression(expression, kind) ==
    IF ListPatternMatch(expression) # None
    THEN LET elements == split(ListPatternMatch(expression), ",")
             normalized == [i \in 1..Len(elements) |-> normalize_element(elements[i], kind)]
         IN IF \E i \in 1..Len(elements) : Raised(normalized[i])
            THEN Raise("ValueError")
            ELSE Return(ListSelector(kind, expression,
                                     [i \in 1..Len(elements) |-> normalized[i].value]))
    ELSE ReturnNone

\* Parser._star_expression
star_expression(expression, kind) ==
    IF expression = <<"*">> THEN Return(StarSelector(kind)) ELSE ReturnNone

\* Parser._data_expression
data_expression(expression, kind) ==
    IF kind # "sequence" THEN Raise("ValueError")
    ELSE IF expression = DATA THEN Return(DataSelector) ELSE ReturnNone

\* Parser._data_syn_expression
data_syn_expression(expression, kind) ==
    IF kind # "sequence" THEN Raise("ValueError")
    ELSE IF expression = DATA_SYN THEN Return(DataSynSelector) ELSE ReturnNone

\* Parser._range_expression
range_expression(expression, kind) ==
    IF RangePatternMatches(expression)
    THEN LET match == RangePatternGroups(expression)
             start == normalize_optional_element(match.start, kind)
             stop == normalize_optional_element(match.stop, kind)
             step == IF match.step = None THEN 1 ELSE int(match.step)
         IN IF Raised(start) THEN start
            ELSE IF Raised(stop) THEN stop
            ELSE RangeSelector(kind, expression, start.value, stop.value, step)
    ELSE ReturnNone

\* `if selector := expression_handler(...)`: the handler raised or matched
Decides(r) == Raised(r) \/ ~r.none

\* Parser._parse_sequence_expression
parse_sequence_expression(expression) ==
    IF Decides(single_element_expression(expression, "sequence"))
    THEN single_element_expression(expression, "sequence")
    ELSE IF Decides(list_expression(expression, "sequence"))
    THEN list_expression(expression, "sequence")
    ELSE IF Decides(star_expression(expression, "sequence"))
    THEN star_expression(expression, "sequence")
    ELSE IF Decides(data_expression(expression, "sequence"))
    THEN data_expression(expression, "sequence")
    ELSE IF Decides(data_syn_expression(expression, "sequence"))
    THEN data_syn_expression(expression, "sequence")
    ELSE IF Decides(range_expression(expression, "sequence"))
    THEN range_expression(expression, "sequence")
    ELSE Raise("SelectionExpressionError")

\* Parser._parse_frame_expression
parse_frame_expression(expression) ==
    IF Decides(single_element_expression(expression, "frame"))
    THEN single_element_expression(expression, "frame")
    ELSE IF Decides(list_expression(expression, "frame"))
    THEN list_expression(expression, "frame")
    ELSE IF Decides(star_expression(expression, "frame"))
    THEN star_expression(expression, "frame")
    ELSE IF Decides(range_expression(expression, "frame"))
    THEN range_expression(expression, "frame")
    ELSE Raise("SelectionExpressionError")

\* Parser._get_sequence_and_frame_expression
get_sequence_and_frame_expression(expression) ==
    IF count(expression, "/") = 0 THEN Raise("SelectionExpressionError")
    ELSE IF count(expression, "/") > 1 THEN Raise("SelectionExpressionError")
    ELSE LET halves == split(expression, "/")
         IN IF halves[1] = <<>> THEN Raise("SelectionExpressionError")
            ELSE IF halves[2] = <<>> THEN Raise("SelectionExpressionError")
            ELSE Return(halves)

\* selectors.Selector
Selector(expression, sequence_selector, frame_selector) ==
    [expression |-> expression,
     sequence_selector |-> sequence_selector,
     frame_selector |-> frame_selector]

\* Parser.parse; `cause` is the exception the SelectionExpressionError was
\* raised from, "None" when it is raised directly
parse(expression) ==
    LET halves == get_sequence_and_frame_expression(expression)
    IN IF Raised(halves) THEN [exc |-> "SelectionExpressionError", cause |-> "None"]
       ELSE LET sequence_selector == parse_sequence_expression(halves.value[1])
                frame_selector == parse_frame_expression(halves.value[2])
            IN IF Raised(sequence_selector)
               THEN [exc |-> "SelectionExpressionError", cause |-> sequence_selector.exc]
               ELSE IF Raised(frame_selector)
               THEN [exc |-> "SelectionExpressionError", cause |-> frame_selector.exc]
               ELSE Return(Selector(expression, sequence_selector.value, frame_selector.value))

-----------------------------------------------------------------------------
(* selectors.py: select *)

\* elements.index(x), counted from 0; the caller has checked membership
index(elements, x) ==
    (CHOOSE i \in 1..Len(elements) :
        elements[i] = x /\ \A j \in 1..(i - 1) : elements[j] # x) - 1

Min(a, b) == IF a < b THEN a ELSE b

\* an Optional[int]: None, or the integer n
NoneInt == [none |-> TRUE]

SomeInt(n) == [none |-> FALSE, at |-> n]

\* slice(start, stop, step).indices(n) for boundaries that are None or >= 0:
\* the first position, the position to stop before, both counted from 0
SliceStart(start, step, n) ==
    IF step > 0 THEN (IF start.none THEN 0 ELSE Min(start.at, n))
    ELSE (IF start.none THEN n - 1 ELSE Min(start.at, n - 1))

\* SliceStop with the stop position itself still covered
SliceStopInclusive(stop, step, n) ==
    IF step > 0 THEN (IF stop.none THEN n ELSE Min(stop.at + 1, n))
    ELSE (IF stop.none THEN -1 ELSE Min(stop.at - 1, n - 1))

SliceStop(stop, step, n) ==
    IF step > 0 THEN (IF stop.none THEN n ELSE Min(stop.at, n))
    ELSE (IF stop.none THEN -1 ELSE Min(stop.at, n - 1))

SliceLength(lo, hi, step) ==
    IF step > 0 THEN (IF lo < hi THEN (hi - lo - 1) \div step + 1 ELSE 0)
    ELSE (IF hi < lo THEN (lo - hi - 1) \div (0 - step) + 1 ELSE 0)

\* a slice whose negative step walks, backwards, the positions the positive
\* step walks between the swapped boundaries
SliceMirrored(elements, start_index, stop_index, step) ==
    LET n == Len(elements)
        lo == IF step > 0 THEN SliceStart(start_index, step, n)
              ELSE SliceStart(stop_index, 0 - step, n)
        hi == IF step > 0 THEN SliceStop(stop_index, step, n)
              ELSE SliceStop(start_index, 0 - step, n)
        width == IF step > 0 THEN step ELSE 0 - step
        length == SliceLength(lo, hi, width)
    IN [k \in 1..length |->
           IF step > 0 THEN elements[lo + (k - 1) * width + 1]
           ELSE elements[lo + (length - k) * width + 1]]

\* elements[slice(start_index, stop_index, step)]
Slice(elements, start_index, stop_index, step) ==
    LET n == Len(elements)
        lo == SliceStart(start_index, step, n)
        hi == SliceStop(stop_index, step, n)
    IN [k \in 1..SliceLength(lo, hi, step) |-> elements[lo + (k - 1) * step + 1]]

\* [element for element in elements if <keep>]
RECURSIVE Filter(_, _)
Filter(elements, keep) ==
    IF elements = <<>> THEN <<>>
    ELSE (IF Head(elements) \in keep THEN <<Head(elements)>> ELSE <<>>)
         \o Filter(Tail(elements), keep)

\* an error that does not keep the list the element was looked up in
MissingElementErrorBare(message, element, elements) ==
    [exc |-> "MissingElementError", message |-> message,
     element |-> element, elements |-> <<>>]

MissingElementError(message, element, elements) ==
    [exc |-> "MissingElementError", message |-> message,
     element |-> element, elements |-> elements]

EmptySelectionError(expression, elements) ==
    [exc |-> "EmptySelectionError", expression |-> expression, elements |-> elements]

\* a check that lets an empty list through
check_elements_to_select_fromAnything(elements) == "None"

\* ElementSelector.check_elements_to_select_from
check_elements_to_select_from(elements) == IF elements = <<>> THEN "ValueError" ELSE "None"

\* SingleElementSelector.select
SingleSelect(self, elements) ==
    IF check_elements_to_select_from(elements) # "None" THEN Raise("ValueError")
    ELSE IF self.element \notin Elems(elements)
    THEN MissingElementError([text |-> "Single element missing"], self.element, elements)
    ELSE Return(<<self.element>>)

\* s.lstrip(c)
RECURSIVE lstrip(_, _)
lstrip(s, c) == IF s # <<>> /\ Head(s) = c THEN lstrip(Tail(s), c) ELSE s

\* s.rstrip(c)
RECURSIVE rstrip(_, _)
rstrip(s, c) ==
    IF s # <<>> /\ s[Len(s)] = c THEN rstrip(SubSeq(s, 1, Len(s) - 1), c) ELSE s

\* ListSelector.get_list_expression_element
get_list_expression_element(self, i) ==
    split(rstrip(lstrip(self.expression, "["), "]"), ",")[i + 1]

\* a list selection put out in the order of the available elements, each once
ListSelectAvailableOrder(self, elements) ==
    IF check_elements_to_select_from(elements) # "None" THEN Raise("ValueError")
    ELSE IF \E i \in 1..Len(self.elements) : self.elements[i] \notin Elems(elements)
    THEN LET i == CHOOSE i \in 1..Len(self.elements) :
                    /\ self.elements[i] \notin Elems(elements)
                    /\ \A j \in 1..(i - 1) : self.elements[j] \in Elems(elements)
         IN MissingElementError(
                [text |-> "List element missing",
                 shown |-> get_list_expression_element(self, i - 1), index |-> i - 1],
                self.elements[i], elements)
    ELSE Return(Filter(elements, Elems(self.elements)))

\* a list that returns its elements without a look at the list of available ones
ListSelectUnchecked(self, elements) ==
    IF check_elements_to_select_from(elements) # "None" THEN Raise("ValueError")
    ELSE Return(self.elements)

\* ListSelector.select
ListSelect(self, elements) ==
    IF check_elements_to_select_from(elements) # "None" THEN Raise("ValueError")
    ELSE IF \E i \in 1..Len(self.elements) : self.elements[i] \notin Elems(elements)
    THEN LET i == CHOOSE i \in 1..Len(self.elements) :
                    /\ self.elements[i] \notin Elems(elements)
                    /\ \A j \in 1..(i - 1) : self.elements[j] \in Elems(elements)
         IN MissingElementError(
                [text |-> "List element missing",
                 shown |-> get_list_expression_element(self, i - 1), index |-> i - 1],
                self.elements[i], elements)
    ELSE Return(self.elements)

\* StarSelector.select
StarSelect(self, elements) ==
    IF check_elements_to_select_from(elements) # "None" THEN Raise("ValueError")
    ELSE Return(elements)

\* a data selection that keeps data_syn
DataSelectKeeping(self, elements) ==
    IF check_elements_to_select_from(elements) # "None" THEN Raise("ValueError")
    ELSE Return(elements)

\* a data selection that fails when nothing but data_syn is available
DataSelectNeverEmpty(self, elements) ==
    IF check_elements_to_select_from(elements) # "None" THEN Raise("ValueError")
    ELSE IF Elems(elements) \subseteq {DATA_SYN}
    THEN EmptySelectionError(DATA, elements)
    ELSE Return(Filter(elements, Elems(elements) \ {DATA_SYN}))

\* DataSelector.select
DataSelect(self, elements) ==
    IF check_elements_to_select_from(elements) # "None" THEN Raise("ValueError")
    ELSE Return(Filter(elements, Elems(elements) \ {DATA_SYN}))

\* DataSynSelector.select
DataSynSelect(self, elements) ==
    IF check_elements_to_select_from(elements) # "None" THEN Raise("ValueError")
    ELSE IF DATA_SYN \notin Elems(elements)
    THEN MissingElementError([text |-> "data_syn sequence missing"], DATA_SYN, elements)
    ELSE Return(<<DATA_SYN>>)

\* a range that expands over the list as given on either axis
RangeElementsUnfiltered(self, elements) == elements

\* the list a range expands over: data_syn has to be excluded on the sequence axis
RangeElements(self, elements) ==
    IF self.kind = "sequence"
    THEN Filter(elements, {e \in Elems(elements) : isdigit(e)})
    ELSE elements

\* RangeSelect without the check for an empty expansion
RangeSelectAllowingEmpty(self, given) ==
    IF check_elements_to_select_from(given) # "None" THEN Raise("ValueError")
    ELSE LET elements == RangeElements(self, given)
         IN IF Truthy(self.start) /\ self.start \notin Elems(elements)
            THEN MissingElementError([text |-> "Range start element missing"],
                                     self.start, elements)
            ELSE IF Truthy(self.stop) /\ self.stop \notin Elems(elements)
            THEN MissingElementError([text |-> "Range stop element missing"],
                                     self.stop, elements)
            ELSE LET start_index == IF Truthy(self.start)
                                    THEN SomeInt(index(elements, self.start)) ELSE NoneInt
                     stop_index == IF Truthy(self.stop)
                                   THEN SomeInt(index(elements, self.stop)) ELSE NoneInt
                 IN Return(Slice(elements, start_index, stop_index, self.step))

\* RangeSelector.select
RangeSelect(self, given) ==
    IF check_elements_to_select_from(given) # "None" THEN Raise("ValueError")
    ELSE LET elements == RangeElements(self, given)
         IN IF Truthy(self.start) /\ self.start \notin Elems(elements)
            THEN MissingElementError([text |-> "Range start element missing"],
                                     self.start, elements)
            ELSE IF Truthy(self.stop) /\ self.stop \notin Elems(elements)
            THEN MissingElementError([text |-> "Range stop element missing"],
                                     self.stop, elements)
            ELSE LET start_index == IF Truthy(self.start)
                                    THEN SomeInt(index(elements, self.start)) ELSE NoneInt
                     stop_index == IF Truthy(self.stop)
                                   THEN SomeInt(index(elements, self.stop)) ELSE NoneInt
                     expansion == Slice(elements, start_index, stop_index, self.step)
                 IN IF expansion = <<>>
                    THEN EmptySelectionError(self.expression, elements)
                    ELSE Return(expansion)

\* ElementSelector.select, dispatched on the class of the selector
select(self, elements) ==
    CASE self.type = "single" -> SingleSelect(self, elements)
      [] self.type = "list" -> ListSelect(self, elements)
      [] self.type = "star" -> StarSelect(self, elements)
      [] self.type = "data" -> DataSelect(self, elements)
      [] self.type = "data_syn" -> DataSynSelect(self, elements)
      [] self.type = "range" -> RangeSelect(self, elements)

-----------------------------------------------------------------------------
(* parsing.parse_selection_expressions *)

\* the first expression that does not parse ends the call with a ValueError
\* raised from the SelectionExpressionError
parse_selection_expressions(given) ==
    LET Collect(parsed) ==
            IF \E i \in 1..Len(given) : Raised(parsed[i])
            THEN LET i == CHOOSE i \in 1..Len(given) :
                            /\ Raised(parsed[i])
                            /\ \A j \in 1..(i - 1) : ~Raised(parsed[j])
                 IN [exc |-> "ValueError", text |-> "Invalid selection expression",
                     expression |-> given[i], index |-> 0, expressions |-> given,
                     cause |-> parsed[i].exc]
            ELSE Return([i \in 1..Len(given) |-> parsed[i].value])
    IN Collect([i \in 1..Len(given) |-> parse(given[i])])

-----------------------------------------------------------------------------
(* dataset_access.py, datatypes.py: what is in the dataset directory *)

\* DatasetAccess.get_available_frame_sequences: the entries of data, and
\* data_syn when that directory exists
get_available_frame_sequences == DOMAIN dataset

\* the kinds of file a frame of the sequence must have
expected_kind_of_files(sequence_name) ==
    <<"color", "depth", "label">>
        \o (IF sequence_name # DATA_SYN THEN <<"box">> ELSE <<>>)

\* FILE_PATTERN: a file counts when it is named <index>-<kind>.png or .txt
FILE_PATTERN(file) == file.extension \in {"png", "txt"}

\* FrameSequence.get_available_frame_sets: the complete frames, and the
\* incomplete frames with the kinds of file each misses
get_available_frame_sets(sequence_name) ==
    LET files == {file \in dataset[sequence_name] : FILE_PATTERN(file)}
        frame_sets == {file.index : file \in files}
        kind_of_files(frame_set) == {file.kindoffile : file \in {g \in files : g.index = frame_set}}
        missing_kinds_of_file(frame_set) ==
            LET Missing(kind) == kind \notin kind_of_files(frame_set)
            IN SelectSeq(expected_kind_of_files(sequence_name), Missing)
    IN [complete |-> {f \in frame_sets : missing_kinds_of_file(f) = <<>>},
        incomplete |-> [f \in {g \in frame_sets : missing_kinds_of_file(g) # <<>>}
                           |-> missing_kinds_of_file(f)]]

-----------------------------------------------------------------------------
(* descriptor_creation.py: DescriptorCreator *)

Descriptor(frame_sequence, frame) == [frame_sequence |-> frame_sequence, frame |-> frame]

\* the IOErrors of the resolver
SequenceNotAvailable(element) ==
    [exc |-> "IOError", text |-> "Frame sequence is not available", sequence |-> element]

FrameNotAvailable(sequence, frame) ==
    [exc |-> "IOError", text |-> "Frame is not available",
     sequence |-> sequence, frame |-> frame]

FilesMissing(sequence, frame, missing_files) ==
    [exc |-> "IOError", text |-> "Files for frame missing",
     sequence |-> sequence, frame |-> frame, missing_files |-> missing_files]

\* the selected frames put out in sorted order, each once
DescriptorsOfFramesSorted(sequence, selected_frames, complete_frames, incomplete_frames) ==
    LET selected_incomplete_frames == Elems(selected_frames) \ complete_frames
        ordered == sorted(Elems(selected_frames))
    IN IF selected_incomplete_frames # {}
       THEN {FilesMissing(sequence, incomplete_frame, incomplete_frames[incomplete_frame]) :
                incomplete_frame \in selected_incomplete_frames}
       ELSE {Return([k \in 1..Len(ordered) |-> Descriptor(sequence, ordered[k])])}

\* the selected incomplete frames left out without an error
DescriptorsOfFramesSkipping(sequence, selected_frames, complete_frames, incomplete_frames) ==
    LET kept == Filter(selected_frames, complete_frames)
    IN {Return([k \in 1..Len(kept) |-> Descriptor(sequence, kept[k])])}

\* the selected frames put out without a look at their files
DescriptorsOfFramesUnchecked(sequence, selected_frames, complete_frames, incomplete_frames) ==
    {Return([k \in 1..Len(selected_frames) |-> Descriptor(sequence, selected_frames[k])])}

\* the end of the loop body: the check for selected incomplete frames, where
\* list(set)[0] takes any one of them, and the descriptors of the frames
DescriptorsOfFrames(sequence, selected_frames, complete_frames, incomplete_frames) ==
    LET selected_incomplete_frames == Elems(selected_frames) \ complete_frames
    IN IF selected_incomplete_frames # {}
       THEN {IF incomplete_frame \in DOMAIN incomplete_frames
             THEN FilesMissing(sequence, incomplete_frame, incomplete_frames[incomplete_frame])
             ELSE Raise("KeyError") :
                incomplete_frame \in selected_incomplete_frames}
       ELSE {Return([k \in 1..Len(selected_frames) |->
                        Descriptor(sequence, selected_frames[k])])}

\* frame sets that are read from the directory at every call
memoised_frame_setsRead(sequence) ==
    IF sequence \in DOMAIN dataset THEN get_available_frame_sets(sequence)
    ELSE memo[sequence]

\* get_frame_sequence(sequence).get_available_frame_sets(), both under
\* functools.lru_cache: the frame sets of the first read of the sequence
\* through this DatasetAccess, whatever the directory holds now
memoised_frame_sets(sequence) ==
    IF sequence \in DOMAIN memo THEN memo[sequence]
    ELSE get_available_frame_sets(sequence)

\* a loop body that lets the selector select from the complete frames only
DescriptorsOfSequenceCompleteOnly(selector, sequence) ==
    IF sequence \notin get_available_frame_sequences
    THEN {[exc |-> "IOError", text |-> "Frame sequence does not exist", sequence |-> sequence]}
    ELSE
    LET complete_frames == get_available_frame_sets(sequence).complete
        incomplete_frames == get_available_frame_sets(sequence).incomplete
        available_frames == sorted(complete_frames)
        selected_frames == select(selector.frame_selector, available_frames)
    IN IF selected_frames.exc = "MissingElementError"
       THEN {FrameNotAvailable(sequence, selected_frames.element)}
       ELSE IF Raised(selected_frames) THEN {selected_frames}
       ELSE DescriptorsOfFrames(sequence, selected_frames.value,
                                complete_frames, incomplete_frames)

\* the body of the loop over the selected sequences: the outcomes it can have
\* for one sequence
DescriptorsOfSequence(selector, sequence) ==
    IF sequence \notin DOMAIN memo /\ sequence \notin get_available_frame_sequences
    THEN {[exc |-> "IOError", text |-> "Frame sequence does not exist", sequence |-> sequence]}
    ELSE
    LET complete_frames == memoised_frame_sets(sequence).complete
        incomplete_frames == memoised_frame_sets(sequence).incomplete
        available_frames == sorted(complete_frames \cup DOMAIN incomplete_frames)
        selected_frames == select(selector.frame_selector, available_frames)
    IN IF selected_frames.exc = "MissingElementError"
       THEN {FrameNotAvailable(sequence, selected_frames.element)}
       ELSE IF Raised(selected_frames) THEN {selected_frames}
       ELSE DescriptorsOfFrames(sequence, selected_frames.value,
                                complete_frames, incomplete_frames)

\* the loop over the selected sequences: it ends at the first sequence that raises
RECURSIVE DescriptorsOfSequences(_, _)
DescriptorsOfSequences(selector, sequences) ==
    IF sequences = <<>> THEN {Return(<<>>)}
    ELSE UNION {IF Raised(first) THEN {first}
                ELSE {IF Raised(rest) THEN rest ELSE Return(first.value \o rest.value) :
                         rest \in DescriptorsOfSequences(selector, Tail(sequences))} :
                   first \in DescriptorsOfSequence(selector, Head(sequences))}

\* the sequences whose frame sets _create_descriptors_from_selector asks
\* for: the selected sequences up to the first one that raises
SequencesRead(selector) ==
    LET selected_sequences == select(selector.sequence_selector,
                                     sorted(get_available_frame_sequences))
        Raises(sequence) == \E outcome \in DescriptorsOfSequence(selector, sequence) :
                                Raised(outcome)
        Reached(sequences) ==
            {sequences[j] : j \in {k \in 1..Len(sequences) :
                                     \A m \in 1..(k - 1) : ~Raises(sequences[m])}}
    IN IF Raised(selected_sequences) THEN {}
       ELSE Reached(selected_sequences.value) \cap get_available_frame_sequences

\* the memo after these sequences have been asked for: a sequence read
\* before keeps its frame sets, the others are read from the directory
MemoAfter(sequences) ==
    [sequence \in DOMAIN memo \cup sequences |-> memoised_frame_sets(sequence)]

\* a resolver that lets every error of the sequence selector through as it is
create_descriptors_from_selectorUnwrapped(selector) ==
    LET available_sequences == sorted(get_available_frame_sequences)
        selected_sequences == select(selector.sequence_selector, available_sequences)
    IN IF Raised(selected_sequences) THEN {selected_sequences}
       ELSE DescriptorsOfSequences(selector, selected_sequences.value)

\* DescriptorCreator._create_descriptors_from_selector: its possible outcomes
create_descriptors_from_selector(selector) ==
    LET available_sequences == sorted(get_available_frame_sequences)
        selected_sequences == select(selector.sequence_selector, available_sequences)
    IN IF selected_sequences.exc = "MissingElementError"
       THEN {SequenceNotAvailable(selected_sequences.element)}
       ELSE IF Raised(selected_sequences) THEN {selected_sequences}
       ELSE DescriptorsOfSequences(selector, selected_sequences.value)

-----------------------------------------------------------------------------
(* frameselection.py, utils.expand_range: the selections of YcbVideoLoader *)

NUMBERED_ITEM_MAX_DIGITS == 6

\* a full match of one alternative of the selection template with n digits:
\* a number, a list, a range or '*'
MatchesSelectionTemplate(s, n) ==
    LET Numbered(t) == isdigit(t) /\ Len(t) <= n
        parts == split(s, ":")
    IN \/ Numbered(s)
       \/ /\ Len(s) >= 2 /\ s[1] = "[" /\ s[Len(s)] = "]"
          /\ \A item \in Elems(split(SubSeq(s, 2, Len(s) - 1), ",")) : Numbered(item)
       \/ /\ Len(parts) \in {2, 3}
          /\ parts[1] = <<>> \/ Numbered(parts[1])
          /\ parts[2] = <<>> \/ Numbered(parts[2])
          /\ Len(parts) = 3 =>
                \/ parts[3] = <<>>
                \/ Numbered(parts[3])
                \/ Len(parts[3]) > 1 /\ parts[3][1] = "-" /\ Numbered(Tail(parts[3]))
       \/ s = <<"*">>

FrameSelector(frame_sequence_selection, frame_selection) ==
    [frame_sequence_selection |-> frame_sequence_selection,
     frame_selection |-> frame_selection]

\* get_frame_selector: SELECTION_EXPRESSION_PATTERN.match(selection)
get_frame_selector(selection) ==
    LET Fits(t) ==
            /\ count(t, "/") = 1
            /\ \/ MatchesSelectionTemplate(split(t, "/")[1], SequenceWidth)
               \/ split(t, "/")[1] \in {DATA, DATA_SYN}
            /\ MatchesSelectionTemplate(split(t, "/")[2], FrameWidth)
    IN IF \E t \in DollarCuts(selection) : Fits(t)
       THEN LET t == CHOOSE u \in DollarCuts(selection) : Fits(u)
            IN Return(FrameSelector(split(t, "/")[1], split(t, "/")[2]))
       ELSE Raise("ValueError")

\* a loop that ends at the first outcome that is an exception and otherwise
\* joins the lists
FirstRaisedOrAll(outcomes) ==
    IF \E i \in 1..Len(outcomes) : Raised(outcomes[i])
    THEN outcomes[CHOOSE i \in 1..Len(outcomes) :
                     Raised(outcomes[i]) /\ \A j \in 1..(i - 1) : ~Raised(outcomes[j])]
    ELSE Return(Cat([i \in 1..Len(outcomes) |-> outcomes[i].value]))

\* get_frame_selectors
get_frame_selectors(selections) ==
    LET Wrapped(outcome, at) ==
            IF Raised(outcome)
            THEN [exc |-> "ValueError", text |-> "Selection syntax is incorrect",
                  selection |-> selections[at + 1], index |-> at]
            ELSE Return(<<outcome.value>>)
    IN FirstRaisedOrAll([i \in 1..Len(selections) |->
                            Wrapped(get_frame_selector(selections[i]), i - 1)])

\* get_items: the items of a list or the single item
get_items(selection) ==
    IF ListPatternMatch(selection) # None
    THEN Return(split(ListPatternMatch(selection), ","))
    ELSE IF \E t \in DollarCuts(selection) : isdigit(t) \/ t \in {<<"*">>, DATA, DATA_SYN}
    THEN Return(<<CHOOSE t \in DollarCuts(selection) :
                     isdigit(t) \/ t \in {<<"*">>, DATA, DATA_SYN}>>)
    ELSE Raise("ValueError")

\* a normalization that checks the item and leaves it as written
normalize_selection_itemAsWritten(item, kind) ==
    IF item = <<"*">> \/ (kind = "sequence" /\ item \in {DATA, DATA_SYN}) THEN Return(item)
    ELSE IF isdigit(item) /\ Len(item) <= max_length(kind) THEN Return(item)
    ELSE Raise("ValueError")

\* normalize_sequence_selection_item / normalize_frame_selection_item
normalize_selection_item(item, kind) ==
    IF item = <<"*">> \/ (kind = "sequence" /\ item \in {DATA, DATA_SYN}) THEN Return(item)
    ELSE IF isdigit(item) /\ Len(item) <= max_length(kind)
    THEN Return(format(DigitsToInt(item), max_length(kind)))
    ELSE Raise("ValueError")

\* the digits s begins with
RECURSIVE LeadingDigits(_)
LeadingDigits(s) ==
    IF s # <<>> /\ Head(s) \in Digit THEN <<Head(s)>> \o LeadingDigits(Tail(s)) ELSE <<>>

\* range_selection: RANGE_PATTERN.match(selection), which need not reach the
\* end of the selection, and the RangeSelection made of its groups
range_selection(selection, kind) ==
    LET Most(t) == SubSeq(t, 1, Min(Len(t), NUMBERED_ITEM_MAX_DIGITS))
        start == LeadingDigits(selection)
        after_start == SubSeq(selection, Len(start) + 1, Len(selection))
        stop == Most(LeadingDigits(Tail(after_start)))
        after_stop == SubSeq(after_start, Len(stop) + 2, Len(after_start))
        signed == Len(after_stop) > 1 /\ after_stop[2] = "-"
        digits == Most(LeadingDigits(SubSeq(after_stop, IF signed THEN 3 ELSE 2, Len(after_stop))))
        step == IF after_stop = <<>> \/ after_stop[1] # ":" \/ digits = <<>> THEN <<>>
                ELSE (IF signed THEN <<"-">> ELSE <<>>) \o digits
    IN IF Len(start) > NUMBERED_ITEM_MAX_DIGITS \/ after_start = <<>> \/ after_start[1] # ":"
       THEN ReturnNone
       ELSE IF isdigit(start) /\ Len(start) > max_length(kind) THEN Raise("ValueError")
       ELSE IF isdigit(stop) /\ Len(stop) > max_length(kind) THEN Raise("ValueError")
       ELSE IF step # <<>> /\ int(step) = 0 THEN Raise("ValueError")
       ELSE Return([start |-> IF start = <<>> THEN None ELSE format(DigitsToInt(start), max_length(kind)),
                    stop |-> IF stop = <<>> THEN None ELSE format(DigitsToInt(stop), max_length(kind)),
                    step |-> IF step = <<>> THEN NoneInt ELSE SomeInt(int(step))])

MissingItemError(item, usage) == [exc |-> "MissingItemError", item |-> item, usage |-> usage]

\* utils.expand_range
expand_range(item_range, items) ==
    IF items = <<>> THEN Raise("RangeError")
    ELSE IF ~item_range.step.none /\ item_range.step.at = 0 THEN Raise("RangeError")
    ELSE IF Truthy(item_range.start) /\ item_range.start \notin Elems(items)
    THEN MissingItemError(item_range.start, "start")
    ELSE IF Truthy(item_range.stop) /\ item_range.stop \notin Elems(items)
    THEN MissingItemError(item_range.stop, "stop")
    ELSE LET step == IF item_range.step.none THEN 1 ELSE item_range.step.at
             start_index == IF Truthy(item_range.start)
                            THEN SomeInt(index(items, item_range.start)) ELSE NoneInt
             stop_index == IF Truthy(item_range.stop)
                           THEN SomeInt(index(items, item_range.stop)) ELSE NoneInt
             expansion == Slice(items, start_index, stop_index, step)
         IN IF expansion = <<>> THEN Raise("RangeError") ELSE Return(expansion)

-----------------------------------------------------------------------------
(* loader.py: YcbVideoLoader *)

FrameDescriptor(frame_sequence, frame) == [frame_sequence |-> frame_sequence, frame |-> frame]

\* YcbVideoLoader.get_available_data_frame_sequences: the entries of data
get_available_data_frame_sequences == DOMAIN dataset \ {DATA_SYN}

\* the items of a selection, each normalized
NormalizedItems(selection, kind) ==
    LET Normalized(items) ==
            IF Raised(items) THEN items
            ELSE FirstRaisedOrAll([i \in 1..Len(items.value) |->
                    LET item == normalize_selection_item(items.value[i], kind)
                    IN IF Raised(item) THEN item ELSE Return(<<item.value>>)])
    IN Normalized(get_items(selection))

\* the first branch of get_frame_descriptors: the frame sequences selected
SelectedFrameSequences(frame_sequence_selection) ==
    LET Expanded(expansion) ==
            IF expansion.exc = "MissingItemError"
            THEN [exc |-> "IOError", text |-> "Frame sequence specified in range is not available",
                  usage |-> expansion.usage, item |-> expansion.item]
            ELSE expansion
        Available(items) ==
            IF Raised(items) THEN items
            ELSE IF \E i \in 1..Len(items.value) : items.value[i] \notin DOMAIN dataset
            THEN [exc |-> "IOError", text |-> "Frame Sequence is not available",
                  sequence |-> items.value[CHOOSE i \in 1..Len(items.value) :
                                  /\ items.value[i] \notin DOMAIN dataset
                                  /\ \A j \in 1..(i - 1) : items.value[j] \in DOMAIN dataset]]
            ELSE items
        Ranged(sequence_range) ==
            IF Raised(sequence_range) THEN sequence_range
            ELSE IF ~sequence_range.none
            THEN Expanded(expand_range(sequence_range.value,
                                       sorted(get_available_data_frame_sequences)))
            ELSE Available(NormalizedItems(frame_sequence_selection, "sequence"))
    IN IF frame_sequence_selection = <<"*">> THEN Return(sorted(DOMAIN dataset))
       ELSE IF frame_sequence_selection = DATA
       THEN Return(sorted(get_available_data_frame_sequences))
       ELSE Ranged(range_selection(frame_sequence_selection, "sequence"))

\* the body of the loop of get_frame_descriptors: the descriptors of the
\* frames selected in one frame sequence
SelectedFrames(frame_selection, frame_sequence) ==
    LET Described(frames) == [k \in 1..Len(frames) |-> FrameDescriptor(frame_sequence, frames[k])]
        Expanded(expansion) ==
            IF expansion.exc = "MissingItemError"
            THEN [exc |-> "IOError", text |-> "Frame specified in range is not available",
                  usage |-> expansion.usage, item |-> expansion.item]
            ELSE IF Raised(expansion) THEN expansion
            ELSE Return(Described(expansion.value))
        Checked(items, frame_sets) ==
            IF Raised(items) THEN items
            ELSE IF \E i \in 1..Len(items.value) : items.value[i] \notin frame_sets.complete
            THEN LET frame == items.value[CHOOSE i \in 1..Len(items.value) :
                                  /\ items.value[i] \notin frame_sets.complete
                                  /\ \A j \in 1..(i - 1) : items.value[j] \in frame_sets.complete]
                 IN IF frame \in DOMAIN frame_sets.incomplete
                    THEN [exc |-> "IOError", text |-> "Files for frame are missing",
                          sequence |-> frame_sequence, frame |-> frame,
                          missing_files |-> frame_sets.incomplete[frame]]
                    ELSE [exc |-> "IOError", text |-> "Frame is not available",
                          sequence |-> frame_sequence, frame |-> frame]
            ELSE Return(Described(items.value))
        Ranged(frame_range, frame_sets) ==
            IF Raised(frame_range) THEN frame_range
            ELSE IF ~frame_range.none
            THEN Expanded(expand_range(frame_range.value, sorted(frame_sets.complete)))
            ELSE Checked(NormalizedItems(frame_selection, "frame"), frame_sets)
        InSequence(frame_sets) ==
            IF frame_selection = <<"*">> THEN Return(Described(sorted(frame_sets.complete)))
            ELSE Ranged(range_selection(frame_selection, "frame"), frame_sets)
    IN IF frame_sequence \notin DOMAIN dataset
       THEN [exc |-> "IOError", text |-> "Frame sequence does not exist",
             sequence |-> frame_sequence]
       ELSE InSequence(get_available_frame_sets(frame_sequence))

\* YcbVideoLoader.get_frame_descriptors
get_frame_descriptors(frame_selector) ==
    LET InSequences(sequences) ==
            IF Raised(sequences) THEN sequences
            ELSE FirstRaisedOrAll([i \in 1..Len(sequences.value) |->
                    SelectedFrames(frame_selector.frame_selection, sequences.value[i])])
    IN InSequences(SelectedFrameSequences(frame_selector.frame_sequence_selection))

\* YcbVideoLoader._get_descriptors_from_selectors
get_descriptors_from_selectors(given) ==
    FirstRaisedOrAll([i \in 1..Len(given) |-> get_frame_descriptors(given[i])])

\* YcbVideoLoader._get_descriptors_from_selections
get_descriptors_from_selections(selections) ==
    LET Resolved(given) ==
            IF Raised(given) THEN given ELSE get_descriptors_from_selectors(given.value)
    IN Resolved(get_frame_selectors(selections))

\* YcbVideoLoader._get_frame: FrameSequence.get_frame of the frame sequence
get_frame(descriptor) ==
    LET Made(frame_sets) ==
            IF descriptor.frame \in DOMAIN frame_sets.incomplete
            THEN [exc |-> "IOError", text |-> "Frame is incomplete",
                  frame |-> descriptor.frame]
            ELSE IF descriptor.frame \notin frame_sets.complete
            THEN [exc |-> "IOError", text |-> "Frame does not exist",
                  frame |-> descriptor.frame]
            ELSE Return([description |-> Descriptor(descriptor.frame_sequence, descriptor.frame)])
    IN Made(get_available_frame_sets(descriptor.frame_sequence))

-----------------------------------------------------------------------------
(* frame_access.py: FrameSequence, FrameAccessor, FrameAccessObject *)

\* a classification that expects a box file in every sequence, data_syn included
FrameSequence_get_available_frame_setsBoxAlways(sequence_name) ==
    LET files == {file \in dataset[sequence_name] : file.extension \in {"png", "txt", "mat"}}
        frame_sets == {file.index : file \in files}
        kind_of_files(frame_set) == {file.kindoffile : file \in {g \in files : g.index = frame_set}}
        expected == <<"color", "depth", "label", "meta", "box">>
        missing_kinds_of_file(frame_set) ==
            LET Missing(kind) == kind \notin kind_of_files(frame_set)
            IN SelectSeq(expected, Missing)
    IN [complete |-> {f \in frame_sets : missing_kinds_of_file(f) = <<>>},
        incomplete |-> [f \in {g \in frame_sets : missing_kinds_of_file(g) # <<>>}
                           |-> missing_kinds_of_file(f)]]

\* frame_access.FrameSequence.get_available_frame_sets: files named
\* <index>-<kind>.png, .txt or .mat count, and a frame needs color, depth,
\* label and meta, and box unless the sequence is data_syn
FrameSequence_get_available_frame_sets(sequence_name) ==
    LET files == {file \in dataset[sequence_name] : file.extension \in {"png", "txt", "mat"}}
        frame_sets == {file.index : file \in files}
        kind_of_files(frame_set) == {file.kindoffile : file \in {g \in files : g.index = frame_set}}
        expected == <<"color", "depth", "label", "meta">>
                        \o (IF sequence_name # DATA_SYN THEN <<"box">> ELSE <<>>)
        missing_kinds_of_file(frame_set) ==
            LET Missing(kind) == kind \notin kind_of_files(frame_set)
            IN SelectSeq(expected, Missing)
    IN [complete |-> {f \in frame_sets : missing_kinds_of_file(f) = <<>>},
        incomplete |-> [f \in {g \in frame_sets : missing_kinds_of_file(g) # <<>>}
                           |-> missing_kinds_of_file(f)]]

\* FrameAccessor.get_frame, with FrameAccessor.get_frame_sequence and
\* FrameSequence.get_frame: the frame read from its files, or the error
FrameAccessor_get_frame(description) ==
    LET Read(sequence_index, frame_index) ==
            IF Raised(sequence_index) THEN sequence_index
            ELSE IF Raised(frame_index) THEN frame_index
            ELSE IF sequence_index.value \notin DOMAIN dataset
            THEN [exc |-> "IOError", text |-> "Frame sequence does not exist",
                  sequence |-> sequence_index.value]
            ELSE LET frame_sets == FrameSequence_get_available_frame_sets(sequence_index.value)
                 IN IF frame_index.value \in DOMAIN frame_sets.incomplete
                    THEN [exc |-> "IOError", text |-> "Frame set is not complete",
                          frame |-> frame_index.value,
                          missing |-> frame_sets.incomplete[frame_index.value]]
                    ELSE IF frame_index.value \notin frame_sets.complete
                    THEN [exc |-> "IOError", text |-> "Frame set does not exist",
                          frame |-> frame_index.value]
                    ELSE Return([description |->
                                    Descriptor(sequence_index.value, frame_index.value)])
    IN Read(IF description.frame_sequence = DATA_SYN THEN Return(DATA_SYN)
            ELSE normalize_element(description.frame_sequence, "sequence"),
            normalize_element(description.frame, "frame"))

\* an index handed to FrameAccessObject.__getitem__: an int, or another object
IntIndex(n) == [type |-> "int", value |-> n]

ObjectIndex == [type |-> "object"]

\* __getitem__ with Python's list indexing, where -1 is the last position
getitemFromEnd(frame_descriptors, at) ==
    IF at.type = "int"
    THEN IF 0 - Len(frame_descriptors) <= at.value /\ at.value < Len(frame_descriptors)
         THEN [outcome |-> FrameAccessor_get_frame(
                              frame_descriptors[IF at.value < 0
                                                THEN Len(frame_descriptors) + at.value + 1
                                                ELSE at.value + 1]),
               materialized |-> <<frame_descriptors[IF at.value < 0
                                                    THEN Len(frame_descriptors) + at.value + 1
                                                    ELSE at.value + 1]>>]
         ELSE [outcome |-> Raise("ValueError"), materialized |-> <<>>]
    ELSE [outcome |-> Raise("TypeError"), materialized |-> <<>>]

\* FrameAccessObject.__getitem__: its outcome, and the descriptors it handed
\* to get_frame
getitem(frame_descriptors, at) ==
    IF at.type = "int"
    THEN IF 0 <= at.value /\ at.value < Len(frame_descriptors)
         THEN [outcome |-> FrameAccessor_get_frame(frame_descriptors[at.value + 1]),
               materialized |-> <<frame_descriptors[at.value + 1]>>]
         ELSE [outcome |-> Raise("ValueError"), materialized |-> <<>>]
    ELSE [outcome |-> Raise("TypeError"), materialized |-> <<>>]

-----------------------------------------------------------------------------
(* Bounds of the inputs *)

\* identifiers are the numbers 0..MaxId, and data_syn on the sequence axis
MaxId == 2

\* the longest list of available identifiers handed to select
MaxAvail == 4

\* range steps are -MaxStep..MaxStep
MaxStep == 2

\* the longest list expression
MaxListLen == 2

-----------------------------------------------------------------------------
(* Expression texts, as a caller writes them *)

\* a number written without padding; -1 stands for a boundary left out
Written(n) == IF n < 0 THEN <<>> ELSE IntToDigits(n)

StepWritten(step) == IF step < 0 THEN <<"-">> \o IntToDigits(0 - step) ELSE IntToDigits(step)

RECURSIVE JoinComma(_)
JoinComma(items) ==
    IF Len(items) = 1 THEN Written(items[1])
    ELSE Written(items[1]) \o <<",">> \o JoinComma(Tail(items))

SingleTexts == {Written(n) : n \in 0..MaxId}

ListTexts ==
    {<<"[">> \o JoinComma(items) \o <<"]">> :
        items \in UNION {[1..n -> 0..MaxId] : n \in 1..MaxListLen}}

RangeTexts ==
    {Written(a) \o <<":">> \o Written(b) \o <<":">> \o StepWritten(step) :
        a \in -1..MaxId, b \in -1..MaxId, step \in (0 - MaxStep)..MaxStep}
    \cup {Written(a) \o <<":">> \o Written(b) : a \in -1..MaxId, b \in -1..MaxId}

SideTexts(kind) ==
    SingleTexts \cup ListTexts \cup RangeTexts \cup {<<"*">>}
    \cup (IF kind = "sequence" THEN {DATA, DATA_SYN} ELSE {})

\* the element selector the parser builds for one side of an expression
ParseSide(text, kind) ==
    IF kind = "sequence" THEN parse_sequence_expression(text)
    ELSE parse_frame_expression(text)

SelectorsOf(kind) ==
    {ParseSide(text, kind).value :
        text \in {t \in SideTexts(kind) : ~Raised(ParseSide(t, kind))}}

\* the identifiers a directory listing can hold
Identifiers(kind) ==
    {format(n, max_length(kind)) : n \in 0..MaxId}
    \cup (IF kind = "sequence" THEN {DATA_SYN} ELSE {})

DuplicateFree(list) == \A i, j \in 1..Len(list) : list[i] = list[j] => i = j

ListsOver(S, maxlen) ==
    {list \in UNION {[1..n -> S] : n \in 0..maxlen} : DuplicateFree(list)}

-----------------------------------------------------------------------------
(* Expressions handed to Parser.parse: well-formed ones and near misses *)

\* digit strings of 1 digit and of as many digits as an axis takes, and one more
DigitTexts ==
    {format(n, w) : n \in 0..2,
                    w \in {1, SequenceWidth, SequenceWidth + 1, FrameWidth, FrameWidth + 1}}

\* list items: numbers, a missing item, and tokens a list must not hold
ItemTexts ==
    {format(1, w) : w \in {1, SequenceWidth, SequenceWidth + 1, FrameWidth + 1}}
    \cup {<<>>, <<"*">>, <<"2">>}

RECURSIVE JoinTexts(_)
JoinTexts(items) ==
    IF Len(items) = 1 THEN items[1]
    ELSE items[1] \o <<",">> \o JoinTexts(Tail(items))

\* range boundaries: numbers, a boundary left out, a negative number
BoundaryTexts == DigitTexts \cup {<<>>, <<"-", "1">>}

\* step literals: left out, numbers with and without sign, zero, too long
StepTexts ==
    {StepWritten(k) : k \in (0 - MaxStep)..MaxStep}
    \cup {<<>>, <<"-">>, <<"-", "0">>, format(1, ElementTemplateMax + 1),
          <<"-">> \o format(1, ElementTemplateMax)}

\* one side of an expression with the way it was written; `form` is the form
\* the writer meant, and a range records its boundaries and its step literal
NoInput ==
    [form |-> "none", axis |-> "none", side |-> <<>>, other |-> <<>>,
     start |-> <<>>, stop |-> <<>>, colons |-> 0, step |-> <<>>, slashes |-> 0]

SideInput(form, side) ==
    [NoInput EXCEPT !.form = form, !.side = side]

SideInputs ==
    {SideInput("single", t) : t \in DigitTexts}
    \cup {SideInput("list", <<"[">> \o JoinTexts(items) \o <<"]">>) :
             items \in UNION {[1..n -> ItemTexts] : n \in 1..MaxListLen}}
    \cup {SideInput("broken", JoinTexts(items) \o <<",">>) :
             items \in UNION {[1..n -> ItemTexts] : n \in 1..MaxListLen}}
    \cup {[SideInput("range", a \o <<":">> \o b) EXCEPT
                !.start = a, !.stop = b, !.colons = 1] :
             a \in BoundaryTexts, b \in BoundaryTexts}
    \cup {[SideInput("range", a \o <<":">> \o b \o <<":">> \o st) EXCEPT
                !.start = a, !.stop = b, !.colons = 2, !.step = st] :
             a \in BoundaryTexts, b \in BoundaryTexts, st \in StepTexts}
    \cup {SideInput("word", t) :
             t \in {<<"*">>, DATA, DATA_SYN, <<>>, <<"x">>, <<"*", "*">>,
                    <<"[", "]">>, <<"[", ":", "]">>, <<"[", "d", "a", "t", "a", "]">>}}

\* the side as handed over, possibly read from a file with its line feed
WithLineFeed(inputs) ==
    inputs \cup {[i EXCEPT !.side = i.side \o <<"\n">>] : i \in inputs}

\* the other side of the expression is a plain, valid one
OtherSides == {<<"1">>, <<"*">>, <<":">>}

ParseInputs ==
    {[i EXCEPT !.axis = axis, !.other = other, !.slashes = 1] :
        i \in WithLineFeed(SideInputs), axis \in {"sequence", "frame"}, other \in OtherSides}
    \cup {[i EXCEPT !.axis = "sequence", !.slashes = n] :
             i \in {j \in SideInputs : j.form \in {"single", "word"}}, n \in {0, 2}}

\* the expression text of an input
Expression(i) ==
    CASE i.slashes = 0 -> i.side
      [] i.slashes = 2 -> i.side \o <<"/">> \o <<"1">> \o <<"/">> \o <<"1">>
      [] i.slashes = 1 /\ i.axis = "sequence" -> i.side \o <<"/">> \o i.other
      [] i.slashes = 1 /\ i.axis = "frame" -> i.other \o <<"/">> \o i.side

-----------------------------------------------------------------------------
(* Specification of one call of Parser.parse *)

\* no call of Parser.parse on its own
ParserIdle == pInput = NoInput /\ pExpr = <<>> /\ pResult = NotRun

\* no call of select on its own
SelectIdle == sAvail = <<>> /\ sSel = StarSelector("frame") /\ sResult = NotRun

\* no call of get_descriptors
ResolverIdle ==
    /\ dataset = <<>>
    /\ expressions = <<>>
    /\ pc = "idle"
    /\ selectors = <<>>
    /\ descriptors = <<>>
    /\ calls = <<>>
    /\ result = NotRun
    /\ nexts = <<>>
    /\ random_state = 0
    /\ memo = <<>>

InitParse ==
    /\ pInput \in ParseInputs
    /\ pExpr = Expression(pInput)
    /\ pResult = NotRun
    /\ SelectIdle
    /\ ResolverIdle

\* Parser.parse(expression)
Parse ==
    /\ pResult = NotRun
    /\ pResult' = parse(pExpr)
    /\ UNCHANGED <<pInput, pExpr, selectVars, resolverVars, nexts, random_state, memo>>

NextParse == Parse

SpecParse == InitParse /\ [][NextParse]_vars

-----------------------------------------------------------------------------
(* Specification of one evaluation of a selector *)

InitSelect ==
    /\ ParserIdle
    /\ ResolverIdle
    /\ \E kind \in {"sequence", "frame"} :
          /\ sAvail \in ListsOver(Identifiers(kind), MaxAvail)
          /\ sSel \in SelectorsOf(kind)
    /\ sResult = NotRun

\* selector.select(elements)
Select ==
    /\ sResult = NotRun
    /\ sResult' = select(sSel, sAvail)
    /\ UNCHANGED <<parserVars, sAvail, sSel, resolverVars, nexts, random_state, memo>>

NextSelect == Select

SpecSelect == InitSelect /\ [][NextSelect]_vars

-----------------------------------------------------------------------------
(* Datasets and batches of expressions handed to get_descriptors *)

\* a batch holds at most MaxExprs expressions
MaxExprs == 2

\* the files a frame has when none is missing; data_syn frames come without box
WholeFrame(sequence_name) ==
    {<<"color", "png">>, <<"depth", "png">>, <<"label", "png">>, <<"meta", "mat">>}
        \cup (IF sequence_name = DATA_SYN THEN {} ELSE {<<"box", "txt">>})

\* the files of frame n: none, all of them, or all but some (frame 1 then
\* misses color, every other frame depth and meta)
FrameFiles(sequence_name, n, state) ==
    LET lacking == IF n = 1 THEN {"color"} ELSE {"depth", "meta"}
        named == CASE state = "absent" -> {}
                   [] state = "whole" -> WholeFrame(sequence_name)
                   [] state = "partial" ->
                        {name \in WholeFrame(sequence_name) : name[1] \notin lacking}
    IN {[index |-> format(n, FrameWidth), kindoffile |-> name[1], extension |-> name[2]] :
           name \in named}

\* a sequence directory that does not exist
Gone == <<"gone">>

\* the directory contents tried for each sequence: 0001 in every combination
\* of two frames, 0002 and data_syn in a few
Layouts(sequence_name) ==
    CASE sequence_name = format(1, SequenceWidth) ->
            {Gone} \cup {<<a, b>> : a, b \in {"absent", "whole", "partial"}}
      [] sequence_name = format(2, SequenceWidth) ->
            {Gone, <<"whole", "whole">>, <<"whole", "partial">>,
             <<"partial", "absent">>, <<"absent", "absent">>}
      [] sequence_name = DATA_SYN ->
            {Gone, <<"whole", "absent">>, <<"partial", "whole">>}

\* the dataset directory with the given contents of 0001, 0002 and data_syn
Dataset(layouts) ==
    LET names == <<format(1, SequenceWidth), format(2, SequenceWidth), DATA_SYN>>
    IN [name \in {names[i] : i \in {k \in 1..3 : layouts[k] # Gone}} |->
          LET i == CHOOSE k \in 1..3 : names[k] = name
          IN FrameFiles(name, 1, layouts[i][1]) \cup FrameFiles(name, 2, layouts[i][2])]

Datasets ==
    {Dataset(<<a, b, c>>) : a \in Layouts(format(1, SequenceWidth)),
                            b \in Layouts(format(2, SequenceWidth)),
                            c \in Layouts(DATA_SYN)}

\* the sequence sides and the frame sides of the first expression of a batch:
\* every kind of selector on either side, in every combination
SequenceSides ==
    {<<"1">>, <<"[", "1", ",", "2", ",", "1", "]">>, <<"*">>, DATA, DATA_SYN,
     <<":", ":", "-", "1">>}

FrameSides ==
    {<<"1">>, <<"[", "2", ",", "2", ",", "1", "]">>, <<"*">>, <<":", ":", "-", "1">>,
     <<"2", ":", "2">>}

FirstExpressions ==
    {sequence_side \o <<"/">> \o frame_side :
        sequence_side \in SequenceSides, frame_side \in FrameSides}
    \cup {<<":", ":", "0", "/", "1">>}

\* the expressions that follow the first
LaterExpressions ==
    {<<"1", "/", "*">>, <<"*", "/", "1">>, <<"2", "/", "2", ":">>,
     <<":", ":", "0", "/", "1">>}

\* the batches of at most MaxExprs expressions
Batches ==
    {<<>>} \cup
    {<<first>> \o later :
        first \in FirstExpressions,
        later \in UNION {[1..n -> LaterExpressions] : n \in 0..(MaxExprs - 1)}}

-----------------------------------------------------------------------------
(* Specification of one call of DescriptorCreator.get_descriptors *)

Init ==
    /\ ParserIdle
    /\ SelectIdle
    /\ dataset \in Datasets
    /\ expressions \in Batches
    /\ pc = "parse"
    /\ selectors = <<>>
    /\ descriptors = <<>>
    /\ calls = <<>>
    /\ result = NotRun
    /\ nexts = <<>>
    /\ random_state = 0
    /\ memo = <<>>

\* selectors = parsing.parse_selection_expressions(expressions)
ParseSelectionExpressions ==
    /\ pc = "parse"
    /\ \E parsed \in {parse_selection_expressions(expressions)} :
          IF Raised(parsed)
          THEN /\ result' = parsed
               /\ pc' = "done"
               /\ UNCHANGED selectors
          ELSE /\ selectors' = parsed.value
               /\ pc' = "resolve"
               /\ UNCHANGED result
    /\ UNCHANGED <<parserVars, selectVars, random_state, memo, nexts, dataset, expressions, descriptors, calls>>

\* a loop that leaves out a selector that fails and goes on with the next
CreateDescriptorsSkippingErrors ==
    /\ pc = "resolve"
    /\ Len(calls) < Len(selectors)
    /\ calls' = Append(calls, Len(calls) + 1)
    /\ \E outcome \in create_descriptors_from_selector(selectors[Len(calls) + 1]) :
          descriptors' = descriptors \o (IF Raised(outcome) THEN <<>> ELSE outcome.value)
    /\ UNCHANGED <<parserVars, selectVars, random_state, memo, nexts, dataset, expressions, selectors, result, pc>>

\* one turn of the loop: descriptors.extend(self._create_descriptors_from_selector(selector))
CreateDescriptorsFromSelector ==
    /\ pc = "resolve"
    /\ Len(calls) < Len(selectors)
    /\ calls' = Append(calls, Len(calls) + 1)
    /\ \E outcome \in create_descriptors_from_selector(selectors[Len(calls) + 1]) :
          IF Raised(outcome)
          THEN /\ result' = outcome
               /\ pc' = "done"
               /\ UNCHANGED descriptors
          ELSE /\ descriptors' = descriptors \o outcome.value
               /\ UNCHANGED <<result, pc>>
    /\ memo' = MemoAfter(SequencesRead(selectors[Len(calls) + 1]))
    /\ UNCHANGED <<parserVars, selectVars, random_state, nexts, dataset, expressions, selectors>>

\* return descriptors
ReturnDescriptors ==
    /\ pc = "resolve"
    /\ Len(calls) = Len(selectors)
    /\ result' = Return(descriptors)
    /\ pc' = "done"
    /\ UNCHANGED <<parserVars, selectVars, random_state, memo, nexts, dataset, expressions, selectors, descriptors, calls>>

Next ==
    \/ ParseSelectionExpressions
    \/ CreateDescriptorsFromSelector
    \/ ReturnDescriptors

Spec == Init /\ [][Next]_vars

-----------------------------------------------------------------------------
(* Specification of repeated calls of select on one selector and one list, *)
(* with what each call leaves of the two objects                           *)

\* the most calls of select on the same selector and list
MaxEvaluations == 2

\* a range that filters the caller's list in place: elements[:] = [...]
elements_after_selectInPlace(self, elements) ==
    IF self.type = "range" THEN RangeElements(self, elements) ELSE elements

\* the caller's list after select(elements): no select assigns to an item of
\* it or calls a method that changes it; RangeSelector.select binds its local
\* name to a new list
elements_after_select(self, elements) == elements

\* the selector after select(elements): no select assigns to an attribute
self_after_select(self, elements) == self

InitReselect == InitSelect

\* selector.select(elements), once more
SelectAgain ==
    /\ Len(calls) < MaxEvaluations
    /\ sResult' = select(sSel, sAvail)
    /\ sAvail' = elements_after_select(sSel, sAvail)
    /\ sSel' = self_after_select(sSel, sAvail)
    /\ calls' = Append(calls, select(sSel, sAvail))
    /\ UNCHANGED <<parserVars, random_state, memo, nexts, dataset, expressions, pc,
                   selectors, descriptors, result>>

NextReselect == SelectAgain

SpecReselect == InitReselect /\ [][NextReselect]_vars

-----------------------------------------------------------------------------
(* Specification of resolutions through one DatasetAccess while the        *)
(* dataset directory changes in between                                    *)

\* the contents of the dataset directory: 0001 not there, or with its second
\* frame whole, incomplete or not there; 0002 there or not
CacheDatasets ==
    {Dataset(<<a, b, Gone>>) :
        a \in {Gone, <<"whole", "whole">>, <<"whole", "partial">>, <<"whole", "absent">>},
        b \in {Gone, <<"whole", "whole">>}}

CacheExpressions ==
    {<<"*", "/", "*">>, <<"1", "/", "*">>, <<"1", "/", "2">>, <<"2", "/", "1">>,
     <<"*", "/", "2">>}

InitCache ==
    /\ ParserIdle
    /\ SelectIdle
    /\ dataset \in CacheDatasets
    /\ expressions = <<>>
    /\ selectors = <<>>
    /\ descriptors = <<>>
    /\ pc = "ready"
    /\ calls = <<>>
    /\ result = NotRun
    /\ nexts = <<>>
    /\ random_state = 0
    /\ memo = <<>>

\* descriptor_creator._create_descriptors_from_selector(selector) through
\* the DatasetAccess that has been in use so far
Resolve ==
    /\ \E expression \in CacheExpressions :
          /\ expressions' = <<expression>>
          /\ selectors' = <<parse(expression).value>>
          /\ result' \in create_descriptors_from_selector(parse(expression).value)
          /\ memo' = MemoAfter(SequencesRead(parse(expression).value))
    /\ UNCHANGED <<parserVars, selectVars, random_state, nexts, dataset, descriptors, pc,
                   calls>>

\* files or sequence directories are added or removed behind the back of the
\* DatasetAccess; the outcome of the earlier resolution is dropped
ChangeDirectory ==
    /\ dataset' \in CacheDatasets \ {dataset}
    /\ expressions' = <<>>
    /\ selectors' = <<>>
    /\ result' = NotRun
    /\ UNCHANGED <<parserVars, selectVars, random_state, memo, nexts, descriptors, pc,
                   calls>>

NextCache ==
    \/ Resolve
    \/ ChangeDirectory

SpecCache == InitCache /\ [][NextCache]_vars

-----------------------------------------------------------------------------
(* Specification of get_descriptors on one expression whose frame side     *)
(* names frames as range boundaries or list elements                       *)

\* frame sides that name the frames 1 and 2, and the missing frame 0, as
\* start, as stop and as list element
BoundarySides ==
    {<<"1", ":", "2">>, <<"2", ":">>, <<":", "2">>, <<"2", ":", "1", ":", "-", "1">>,
     <<"1", ":">>, <<":", "1">>, <<"0", ":", "2">>, <<"1", ":", "2", ":", "2">>,
     <<"[", "1", ",", "2", "]">>, <<"[", "2", "]">>, <<"[", "2", ",", "0", "]">>,
     <<"[", "0", ",", "2", "]">>}

BoundaryBatches ==
    {<<sequence_side \o <<"/">> \o frame_side>> :
        sequence_side \in {<<"1">>, <<"*">>}, frame_side \in BoundarySides}

InitBoundary ==
    /\ ParserIdle
    /\ SelectIdle
    /\ dataset \in Datasets
    /\ expressions \in BoundaryBatches
    /\ pc = "parse"
    /\ selectors = <<>>
    /\ descriptors = <<>>
    /\ calls = <<>>
    /\ result = NotRun
    /\ nexts = <<>>
    /\ random_state = 0
    /\ memo = <<>>

SpecBoundary == InitBoundary /\ [][Next]_vars

-----------------------------------------------------------------------------
(* Specification of one use of YcbVideoLoader.frames with a list of        *)
(* selections and shuffle=False.  frames has a yield in its body, so it is *)
(* a generator function: the call makes the generator, and the body runs   *)
(* when the generator is advanced.                                         *)

StopIteration == Raise("StopIteration")

InitLoader ==
    /\ ParserIdle
    /\ SelectIdle
    /\ dataset \in Datasets
    /\ expressions \in Batches
    /\ pc = "call"
    /\ selectors = <<>>
    /\ descriptors = <<>>
    /\ calls = <<>>
    /\ result = NotRun
    /\ nexts = <<>>
    /\ random_state = 0
    /\ memo = <<>>

\* loader.frames(selections): no statement of the body runs
Frames ==
    /\ pc = "call"
    /\ result' = Return([generator |-> "frames"])
    /\ pc' = "created"
    /\ UNCHANGED <<parserVars, selectVars, random_state, memo, nexts, dataset, expressions, selectors,
                   descriptors, calls>>

\* this step of the generator: the frame of the next descriptor, or the end
YieldFrame(frame_descriptors, outcomes) ==
    IF Len(outcomes) < Len(frame_descriptors)
    THEN \E frame \in {get_frame(frame_descriptors[Len(outcomes) + 1])} :
            /\ nexts' = Append(outcomes, frame)
            /\ pc' = IF Raised(frame) THEN "finished" ELSE "suspended"
    ELSE /\ nexts' = Append(outcomes, StopIteration)
         /\ pc' = "finished"

\* the first next() on the generator: the body from its first line up to
\* the first yield
NextFromStart ==
    /\ pc = "created"
    /\ \E frame_descriptors \in {get_descriptors_from_selections(expressions)} :
          IF Raised(frame_descriptors)
          THEN /\ nexts' = <<frame_descriptors>>
               /\ pc' = "finished"
               /\ UNCHANGED descriptors
          ELSE /\ descriptors' = frame_descriptors.value
               /\ YieldFrame(frame_descriptors.value, <<>>)
    /\ UNCHANGED <<parserVars, selectVars, random_state, memo, dataset, expressions, selectors, calls, result>>

\* a later next(): the loop over frame_descriptors up to its next yield
NextFromYield ==
    /\ pc = "suspended"
    /\ YieldFrame(descriptors, nexts)
    /\ UNCHANGED <<parserVars, selectVars, random_state, memo, dataset, expressions, selectors, descriptors,
                   calls, result>>

NextLoader ==
    \/ Frames
    \/ NextFromStart
    \/ NextFromYield

SpecLoader == InitLoader /\ [][NextLoader]_vars

-----------------------------------------------------------------------------
(* Specification of the use of one FrameAccessObject: len(), indexing and  *)
(* one iteration, in any order.  __iter__ has a yield in its body, so      *)
(* iter() makes a generator and the loop runs when it is advanced.         *)

\* the longest list of descriptors a frame access object is built with
MaxDescriptors == 2

\* the most calls of len() and of indexing on one object
MaxAccesses == 1

\* a dataset with an incomplete frame in 0001 and no 0002, and one with an
\* incomplete first frame in 0001 and a whole 0002
AccessDatasets ==
    {Dataset(<<<<"whole", "partial">>, Gone, <<"whole", "absent">>>>),
     Dataset(<<<<"partial", "whole">>, <<"whole", "whole">>, Gone>>)}

\* descriptors as a caller may hand them over: of frames that are whole,
\* incomplete or not there, of a sequence that may not be there, normalized or not
DescriptorChoices ==
    {Descriptor(format(1, SequenceWidth), format(1, FrameWidth)),
     Descriptor(<<"1">>, <<"2">>),
     Descriptor(format(2, SequenceWidth), format(1, FrameWidth)),
     Descriptor(DATA_SYN, format(2, FrameWidth))}

DescriptorLists == UNION {[1..n -> DescriptorChoices] : n \in 0..MaxDescriptors}

IndexValues == {IntIndex(n) : n \in -2..(MaxDescriptors + 1)} \cup {ObjectIndex}

\* an entry of the log of calls on the object
Call(op, at, materialized) == [op |-> op, at |-> at, materialized |-> materialized]

Accesses == Cardinality({k \in 1..Len(calls) : calls[k].op \in {"len", "getitem"}})

\* FrameAccessObject(path, descriptors)
InitAccess ==
    /\ ParserIdle
    /\ SelectIdle
    /\ dataset \in AccessDatasets
    /\ expressions = <<>>
    /\ selectors = <<>>
    /\ descriptors \in DescriptorLists
    /\ pc = "built"
    /\ calls = <<>>
    /\ result = NotRun
    /\ nexts = <<>>
    /\ random_state = 0
    /\ memo = <<>>

\* len(frame_access_object)
LenCall ==
    /\ pc \in {"built", "iterating", "exhausted"}
    /\ Accesses < MaxAccesses
    /\ result' = Return(Len(descriptors))
    /\ calls' = Append(calls, Call("len", ObjectIndex, <<>>))
    /\ UNCHANGED <<parserVars, selectVars, random_state, memo, nexts, dataset, expressions, selectors,
                   descriptors, pc>>

\* frame_access_object[index]
GetItem ==
    /\ pc \in {"built", "iterating", "exhausted"}
    /\ Accesses < MaxAccesses
    /\ \E at \in IndexValues :
          \E got \in {getitem(descriptors, at)} :
             /\ result' = got.outcome
             /\ calls' = Append(calls, Call("getitem", at, got.materialized))
    /\ UNCHANGED <<parserVars, selectVars, random_state, memo, nexts, dataset, expressions, selectors,
                   descriptors, pc>>

\* an iter() that reads every frame before the first is asked for
IterEager ==
    /\ pc = "built"
    /\ pc' = "iterating"
    /\ result' = Return([generator |-> "__iter__"])
    /\ calls' = Append(calls, Call("iter", ObjectIndex, descriptors))
    /\ UNCHANGED <<parserVars, selectVars, random_state, memo, nexts, dataset, expressions, selectors,
                   descriptors>>

\* iter(frame_access_object): no statement of __iter__ runs
Iter ==
    /\ pc = "built"
    /\ pc' = "iterating"
    /\ result' = Return([generator |-> "__iter__"])
    /\ calls' = Append(calls, Call("iter", ObjectIndex, <<>>))
    /\ UNCHANGED <<parserVars, selectVars, random_state, memo, nexts, dataset, expressions, selectors,
                   descriptors>>

\* next() on the generator: the loop of __iter__ up to its next yield
NextFrame ==
    /\ pc = "iterating"
    /\ IF Len(nexts) < Len(descriptors)
       THEN \E frame \in {FrameAccessor_get_frame(descriptors[Len(nexts) + 1])} :
               /\ nexts' = Append(nexts, frame)
               /\ result' = frame
               /\ calls' = Append(calls, Call("next", ObjectIndex,
                                              <<descriptors[Len(nexts) + 1]>>))
               /\ pc' = IF Raised(frame) THEN "exhausted" ELSE "iterating"
       ELSE /\ nexts' = Append(nexts, StopIteration)
            /\ result' = StopIteration
            /\ calls' = Append(calls, Call("next", ObjectIndex, <<>>))
            /\ pc' = "exhausted"
    /\ UNCHANGED <<parserVars, selectVars, random_state, memo, dataset, expressions, selectors, descriptors>>

NextAccess ==
    \/ LenCall
    \/ GetItem
    \/ Iter
    \/ NextFrame

SpecAccess == InitAccess /\ [][NextAccess]_vars

-----------------------------------------------------------------------------
(* Specification of one call of FrameSequence.get_available_frame_sets of  *)
(* frame_access.py on a sequence directory with any content                *)

\* the frames a sequence directory of this specification can hold
MaxFrame == 2

\* the files a sequence directory can hold: for each frame the five kinds of
\* file of the dataset, and for frame 1 a file of another kind and a color
\* file with an extension the pattern does not match
DirectoryFiles ==
    {[index |-> format(n, FrameWidth), kindoffile |-> name[1], extension |-> name[2]] :
        n \in 1..MaxFrame, name \in WholeFrame(format(1, SequenceWidth))}
    \cup {[index |-> format(1, FrameWidth), kindoffile |-> "posecnn", extension |-> "mat"],
          [index |-> format(1, FrameWidth), kindoffile |-> "color", extension |-> "jpg"]}

\* the sequence read: the only one of the dataset
SequenceRead == CHOOSE name \in DOMAIN dataset : TRUE

InitFrameSets ==
    /\ ParserIdle
    /\ SelectIdle
    /\ dataset \in {[name \in {sequence} |-> files] :
                       sequence \in {format(1, SequenceWidth), DATA_SYN},
                       files \in SUBSET DirectoryFiles}
    /\ expressions = <<>>
    /\ selectors = <<>>
    /\ descriptors = <<>>
    /\ pc = "call"
    /\ calls = <<>>
    /\ result = NotRun
    /\ nexts = <<>>
    /\ random_state = 0
    /\ memo = <<>>

\* FrameSequence(path).get_available_frame_sets()
GetAvailableFrameSets ==
    /\ pc = "call"
    /\ result' = Return(FrameSequence_get_available_frame_sets(SequenceRead))
    /\ pc' = "done"
    /\ UNCHANGED <<parserVars, selectVars, random_state, memo, nexts, dataset, expressions,
                   selectors, descriptors, calls>>

NextFrameSets == GetAvailableFrameSets

SpecFrameSets == InitFrameSets /\ [][NextFrameSets]_vars

-----------------------------------------------------------------------------
(* Module random, as far as shuffle uses it: one generator shared by all   *)
(* callers, whose state random.seed and random.setstate set and every draw *)
(* advances.  The generator of the model is a small counter; what it has   *)
(* in common with the generator of Python is that the number drawn and the *)
(* state after the draw are functions of the state before it.              *)

\* the generator has the states 0..(RandomModulus - 1)
RandomModulus == 4

RandomStates == 0..(RandomModulus - 1)

\* the state of the generator after one draw
random_advance(state) == (state + 1) % RandomModulus

\* the number below n drawn in this state
randbelow(n, state) == state % n

\* x[i], x[j] = x[j], x[i], with the positions counted from 0
Swapped(x, i, j) == [x EXCEPT ![i + 1] = x[j + 1], ![j + 1] = x[i + 1]]

\* the loop of random.shuffle from position i down to 1: the list and the
\* state of the generator after it
RECURSIVE ShuffledFrom(_, _, _)
ShuffledFrom(x, i, state) ==
    IF i < 1 THEN [x |-> x, state |-> state]
    ELSE ShuffledFrom(Swapped(x, i, randbelow(i + 1, state)), i - 1, random_advance(state))

\* a shuffle that draws from a generator nobody can seed: its draws depend
\* on how many calls were made before
random_shuffleUnseeded(x, state) == ShuffledFrom(x, Len(x) - 1, state + Len(calls))

\* random.shuffle(x)
random_shuffle(x, state) == ShuffledFrom(x, Len(x) - 1, state)

-----------------------------------------------------------------------------
(* Specification of frame access objects that are shuffled: the            *)
(* expressions are resolved and a FrameAccessObject is built on the        *)
(* descriptors, any number of times; the caller seeds the generator,       *)
(* shuffles the object and iterates over it, in any order.                 *)

\* the most calls in one behaviour
MaxShuffleCalls == 6

\* a dataset with two whole frames in 0001 and one in data_syn
ShuffleDatasets == {Dataset(<<<<"whole", "whole">>, Gone, <<"whole", "absent">>>>)}

\* expressions that resolve to two and to three descriptors
ShuffleBatches == {<<<<"1", "/", "*">>>>, <<<<"*", "/", "*">>>>}

\* DescriptorCreator.get_descriptors on selectors already parsed
RECURSIVE DescriptorsOfSelectors(_)
DescriptorsOfSelectors(given) ==
    IF given = <<>> THEN {Return(<<>>)}
    ELSE UNION {IF Raised(first) THEN {first}
                ELSE {IF Raised(rest) THEN rest ELSE Return(first.value \o rest.value) :
                         rest \in DescriptorsOfSelectors(Tail(given))} :
                   first \in create_descriptors_from_selector(Head(given))}

\* DescriptorCreator.get_descriptors: its possible outcomes
get_descriptors(given) ==
    LET Resolved(parsed) ==
            IF Raised(parsed) THEN {parsed} ELSE DescriptorsOfSelectors(parsed.value)
    IN Resolved(parse_selection_expressions(given))

\* the entry of the log for a call of shuffle(): the state of the generator
\* and the descriptor list before it, and the list after it
ShuffleCall(state, before, after) ==
    [op |-> "shuffle", at |-> ObjectIndex, materialized |-> <<>>,
     state |-> state, before |-> before, after |-> after]

\* the entry of the log for a resolution: the descriptors it gave
BuildCall(resolved) ==
    [op |-> "build", at |-> ObjectIndex, materialized |-> <<>>, resolved |-> resolved]

InitShuffle ==
    /\ ParserIdle
    /\ SelectIdle
    /\ dataset \in ShuffleDatasets
    /\ expressions \in ShuffleBatches
    /\ selectors = <<>>
    /\ descriptors = <<>>
    /\ pc = "call"
    /\ calls = <<>>
    /\ result = NotRun
    /\ nexts = <<>>
    /\ random_state \in RandomStates
    /\ memo = <<>>

\* FrameAccessObject(path, descriptors) on the descriptors of a resolution of
\* the expressions; the object of an earlier resolution is dropped
Build ==
    /\ \E outcome \in get_descriptors(expressions) :
          /\ ~Raised(outcome)
          /\ descriptors' = outcome.value
    /\ memo' = MemoAfter(UNION {SequencesRead(parse(expressions[i]).value) :
                                   i \in 1..Len(expressions)})
    /\ pc' = "built"
    /\ nexts' = <<>>
    /\ result' = ReturnNone
    /\ calls' = Append(calls, BuildCall(descriptors'))
    /\ UNCHANGED <<parserVars, selectVars, random_state, dataset, expressions, selectors>>

\* random.seed(a), random.setstate(state)
Seed ==
    /\ \E state \in RandomStates : random_state' = state
    /\ result' = ReturnNone
    /\ calls' = Append(calls, Call("seed", ObjectIndex, <<>>))
    /\ UNCHANGED <<parserVars, selectVars, memo, nexts, dataset, expressions,
                   selectors, descriptors, pc>>

\* frame_access_object.shuffle(): random.shuffle(self._descriptors), on an
\* object that may be under iteration
Shuffle ==
    /\ pc \in {"built", "iterating", "exhausted"}
    /\ \E shuffled \in {random_shuffle(descriptors, random_state)} :
          /\ descriptors' = shuffled.x
          /\ random_state' = shuffled.state
          /\ calls' = Append(calls, ShuffleCall(random_state, descriptors, shuffled.x))
    /\ result' = ReturnNone
    /\ UNCHANGED <<parserVars, selectVars, memo, nexts, dataset, expressions,
                   selectors, pc>>

NextShuffle ==
    /\ Len(calls) < MaxShuffleCalls
    /\ \/ Build
       \/ Seed
       \/ Shuffle
       \/ Iter
       \/ NextFrame

SpecShuffle == InitShuffle /\ [][NextShuffle]_vars

-----------------------------------------------------------------------------
(* Claims about RangeSelector.select, checked under SpecSelect *)

\* a range selector has been evaluated on a non-empty list in which its given
\* boundaries occur
RangeEvaluated ==
    /\ sResult # NotRun
    /\ sSel.type = "range"
    /\ sAvail # <<>>
    /\ sSel.start # None => sSel.start \in Elems(sAvail)
    /\ sSel.stop # None => sSel.stop \in Elems(sAvail)

\* the position, counted from 1, of x in list
PositionIn(list, x) == CHOOSE p \in 1..Len(list) : list[p] = x

\* the positions of `list` a range with these boundaries and step covers:
\* from the start (or the natural beginning for the sign of step), every
\* |step|-th position, up to but without the stop (or the natural end)
CoveredPositions(list, start, stop, step) ==
    LET n == Len(list)
        first == IF start # None THEN PositionIn(list, start)
                 ELSE IF step > 0 THEN 1 ELSE n
        bound == IF stop # None THEN PositionIn(list, stop)
                 ELSE IF step > 0 THEN n + 1 ELSE 0
        width == IF step > 0 THEN step ELSE 0 - step
    IN {p \in 1..n :
          /\ step > 0 => first <= p /\ p < bound
          /\ step < 0 => bound < p /\ p <= first
          /\ \E k \in 0..n : p = first + k * step}

\* `value` lists exactly the covered positions of `list`, in the direction of step
IsSliceOf(value, list, start, stop, step) ==
    LET covered == CoveredPositions(list, start, stop, step)
    IN /\ Len(value) = Cardinality(covered)
       /\ \A k \in 1..Len(value) :
             \E p \in covered :
                /\ value[k] = list[p]
                /\ Cardinality({q \in covered : IF step > 0 THEN q < p ELSE q > p}) = k - 1

\* the identifiers of `list` that are numbers, in the order of `list`
NumericOnly(list) ==
    LET keep == {p \in 1..Len(list) : \A i \in 1..Len(list[p]) : list[p][i] \in Digit}
        nth(k) == CHOOSE p \in keep : Cardinality({q \in keep : q < p}) = k - 1
    IN [k \in 1..Cardinality(keep) |-> list[nth(k)]]

\* the list a range works on: all of `available` on the frame axis, its
\* numeric identifiers on the sequence axis
RangeBasis == IF sSel.kind = "sequence" THEN NumericOnly(sAvail) ELSE sAvail

\* C1 as stated: whenever RangeSelector.select returns for a non-empty
\* duplicate-free list `available` holding the given boundaries, it returns
\* available[i:j:step], the positions i, j and the step counted in `available`.
C1_OriginalSliceOfAvailable ==
    (RangeEvaluated /\ sResult.exc = "None")
        => IsSliceOf(sResult.value, sAvail, sSel.start, sSel.stop, sSel.step)

\* C1 as amended: for a non-empty duplicate-free list `available` holding the
\* given boundaries, let E be `available` on the frame axis and the numeric
\* identifiers of `available` on the sequence axis. RangeSelector.select returns
\* exactly E[i:j:step] (start included, stop excluded, step counting positions
\* of E) when that slice is not empty, and raises EmptySelectionError when it is.
C1_SliceOfRangeBasis ==
    RangeEvaluated =>
        IF CoveredPositions(RangeBasis, sSel.start, sSel.stop, sSel.step) = {}
        THEN sResult.exc = "EmptySelectionError"
        ELSE /\ sResult.exc = "None"
             /\ IsSliceOf(sResult.value, RangeBasis, sSel.start, sSel.stop, sSel.step)

\* a sequence-axis range with a negative step of more than one position has
\* returned several identifiers from a list that holds data_syn and a gap
C1_Witness ==
    /\ RangeEvaluated
    /\ sResult.exc = "None"
    /\ sSel.kind = "sequence"
    /\ sSel.step < -1
    /\ Len(sResult.value) >= 2
    /\ DATA_SYN \in Elems(sAvail)

\* C10: a well-formed range whose slice over the available identifiers is
\* empty fails with EmptySelectionError and never returns an empty list: so
\* for start equal to stop, for no start, a positive step and stop the first
\* available element, and for no start, a negative step and stop the last one.
C10_EmptyRangeFails ==
    RangeEvaluated =>
        /\ sResult.exc = "None" => sResult.value # <<>>
        /\ (sSel.start # None /\ sSel.start = sSel.stop)
              => sResult.exc = "EmptySelectionError"
        /\ (sSel.start = None /\ sSel.step > 0 /\ sSel.stop = sAvail[1])
              => sResult.exc = "EmptySelectionError"
        /\ (sSel.start = None /\ sSel.step < 0 /\ sSel.stop = sAvail[Len(sAvail)])
              => sResult.exc = "EmptySelectionError"
        /\ CoveredPositions(RangeBasis, sSel.start, sSel.stop, sSel.step) = {}
              => sResult.exc = "EmptySelectionError"

\* a range without start and with a negative step, whose stop is the last of
\* several available identifiers, has failed with EmptySelectionError
C10_Witness ==
    /\ RangeEvaluated
    /\ sResult.exc = "EmptySelectionError"
    /\ sSel.start = None
    /\ sSel.step < 0
    /\ Len(sAvail) >= 2
    /\ sSel.stop = sAvail[Len(sAvail)]

\* list[::-1]
Reverse(list) == [k \in 1..Len(list) |-> list[Len(list) + 1 - k]]

Ascending(list) == list = sorted(Elems(list))

\* the range from the stop of the evaluated range back to its start, in
\* steps of -1, evaluated on the same list
MirrorResult ==
    LET Applied(mirror) ==
            IF Raised(mirror) THEN mirror ELSE select(mirror.value, sAvail)
    IN Applied(RangeSelector(sSel.kind, sSel.expression, sSel.stop, sSel.start, -1))

\* Range(a, b, 1) has been evaluated on an ascending list L that holds a and
\* b, and it and Range(b, a, -1) both return on L
MirrorPair ==
    /\ RangeEvaluated
    /\ sSel.step = 1
    /\ sSel.start # None
    /\ sSel.stop # None
    /\ Ascending(sAvail)
    /\ sResult.exc = "None"
    /\ sResult.value # <<>>
    /\ MirrorResult.exc = "None"
    /\ MirrorResult.value # <<>>

\* C11 as stated: for an ascending duplicate-free list L and elements a, b of
\* L, Range(a, b, 1) on L gives the reverse of what Range(b, a, -1) gives on
\* L, whenever both return a non-empty list.
C11_OriginalRoundTrip ==
    MirrorPair => sResult.value = Reverse(MirrorResult.value)

\* C11 as amended: under the same conditions the two lists have the same
\* length and differ by one position of L: Range(a, b, 1) runs from a up to
\* the element before b, the reverse of Range(b, a, -1) runs from the element
\* after a up to b, so the k-th element of the second is the (k+1)-th of the
\* first, and the two lists are never equal.
C11_MirrorShiftedByOne ==
    MirrorPair =>
        LET forward == sResult.value
            backward == Reverse(MirrorResult.value)
        IN /\ Len(forward) = Len(backward)
           /\ forward[1] = sSel.start
           /\ backward[Len(backward)] = sSel.stop
           /\ sSel.stop \notin Elems(forward)
           /\ sSel.start \notin Elems(backward)
           /\ \A k \in 1..(Len(forward) - 1) : backward[k] = forward[k + 1]
           /\ forward # backward

\* Range(a, b, 1) has returned several elements of an ascending list with
\* data_syn in it, and Range(b, a, -1) returns on it too
C11_Witness ==
    /\ MirrorPair
    /\ sSel.kind = "sequence"
    /\ Len(sResult.value) >= 2
    /\ DATA_SYN \in Elems(sAvail)

\* a range selector of the sequence axis has been evaluated
SequenceRangeEvaluated ==
    /\ sResult # NotRun
    /\ sSel.type = "range"
    /\ sSel.kind = "sequence"

\* C12: on the sequence axis a range never selects data_syn: the list that
\* RangeSelector.select returns holds numeric identifiers only, and it is the
\* slice between the positions that start and stop have in the inventory
\* with its non-numeric identifiers removed; an error of the range reports
\* that reduced inventory.
C12_RangeNeverSelectsDataSyn ==
    SequenceRangeEvaluated =>
        /\ sResult.exc = "None" =>
              /\ DATA_SYN \notin Elems(sResult.value)
              /\ \A e \in Elems(sResult.value) :
                    e # <<>> /\ \A i \in 1..Len(e) : e[i] \in Digit
              /\ IsSliceOf(sResult.value, NumericOnly(sAvail),
                           sSel.start, sSel.stop, sSel.step)
        /\ sResult.exc \in {"MissingElementError", "EmptySelectionError"} =>
              sResult.elements = NumericOnly(sAvail)

\* a sequence range has returned several identifiers from an inventory in
\* which data_syn stands before its start, so that the start has another
\* position once data_syn is removed
C12_Witness ==
    /\ SequenceRangeEvaluated
    /\ sResult.exc = "None"
    /\ Len(sResult.value) >= 2
    /\ sSel.start # None
    /\ DATA_SYN \in Elems(sAvail)
    /\ PositionIn(sAvail, DATA_SYN) < PositionIn(sAvail, sSel.start)

-----------------------------------------------------------------------------
(* Claims about the other selectors, checked under SpecSelect *)

\* a selector of this class has been evaluated on a non-empty list
Evaluated(type) == sResult # NotRun /\ sSel.type = type /\ sAvail # <<>>

\* the positions of the list expression whose element is not available
MissingPositions == {i \in 1..Len(sSel.elements) : sSel.elements[i] \notin Elems(sAvail)}

\* C13: ListSelector.select fails with MissingElementError for the first
\* element, in declared order, that is not available, and reports that
\* element and its position (counted from 0) in the list; when every element
\* is available it returns the elements as declared, duplicates kept,
\* whatever their order in `available`.
C13_ListInDeclaredOrder ==
    Evaluated("list") =>
        IF MissingPositions = {}
        THEN /\ sResult.exc = "None"
             /\ sResult.value = sSel.elements
        ELSE /\ sResult.exc = "MissingElementError"
             /\ \E i \in MissingPositions :
                   /\ \A j \in MissingPositions : i <= j
                   /\ sResult.element = sSel.elements[i]
                   /\ sResult.message.index = i - 1
             /\ sResult.elements = sAvail

\* a list whose first element is available and whose second is not has
\* failed at position 1
C13_Witness ==
    /\ Evaluated("list")
    /\ sResult.exc = "MissingElementError"
    /\ sResult.message.index = 1
    /\ Len(sAvail) >= 2

\* the elements of `list` other than x, in the order of `list`
OthersThan(list, x) ==
    LET keep == {p \in 1..Len(list) : list[p] # x}
        nth(k) == CHOOSE p \in keep : Cardinality({q \in keep : q < p}) = k - 1
    IN [k \in 1..Cardinality(keep) |-> list[nth(k)]]

\* C14: on a non-empty inventory the named selectors split it: DataSelector
\* returns exactly the available identifiers other than data_syn, in their
\* given order; DataSynSelector returns exactly [data_syn] when data_syn is
\* available and fails with MissingElementError for data_syn otherwise.
C14_NamedSelectorsSplit ==
    /\ Evaluated("data") =>
          /\ sResult.exc = "None"
          /\ sResult.value = OthersThan(sAvail, DATA_SYN)
    /\ Evaluated("data_syn") =>
          IF \E p \in 1..Len(sAvail) : sAvail[p] = DATA_SYN
          THEN /\ sResult.exc = "None"
               /\ sResult.value = <<DATA_SYN>>
          ELSE /\ sResult.exc = "MissingElementError"
               /\ sResult.element = DATA_SYN
               /\ sResult.elements = sAvail

\* the data selector has returned several identifiers of an inventory that
\* holds data_syn between them
C14_Witness ==
    /\ Evaluated("data")
    /\ sResult.exc = "None"
    /\ Len(sResult.value) >= 2
    /\ Len(sAvail) >= 3
    /\ sAvail[2] = DATA_SYN

\* C15: select of every selector class fails with the ValueError of
\* check_elements_to_select_from on an empty list of available identifiers,
\* before any other check of the selector, and with no other error; on a
\* non-empty list that ValueError is not raised.
C15_EmptyInventoryFails ==
    sResult # NotRun =>
        /\ sAvail = <<>> => sResult = Raise("ValueError")
        /\ sAvail # <<>> => sResult.exc # "ValueError"

\* a selector that names an element (a range with a start, a list, a single
\* element or data_syn) has failed on the empty list with the ValueError
C15_Witness ==
    /\ sResult # NotRun
    /\ sAvail = <<>>
    /\ sResult.exc = "ValueError"
    /\ sSel.type = "range"
    /\ sSel.start # None

-----------------------------------------------------------------------------
(* Claims about leading zeros, checked under SpecSelect *)

\* the widths a number is written with: bare, with one zero too few, in full
PadWidths(kind) == {1, max_length(kind) - 1, max_length(kind)}

\* the ways to write the number of a normalized identifier
Paddings(element, kind) == {format(int(element), w) : w \in PadWidths(kind)}

\* the ways to write a boundary of a range, which may be left out
BoundaryPaddings(element, kind) ==
    IF element = None THEN {<<>>} ELSE Paddings(element, kind)

\* the ways to write a step: as it is, and with a zero before its digits
StepPaddings(step) ==
    {StepWritten(step),
     (IF step < 0 THEN <<"-">> ELSE <<>>) \o <<"0">>
         \o IntToDigits(IF step < 0 THEN 0 - step ELSE step)}

\* the expressions that differ from the one of the selector only in the
\* leading zeros of their numbers
ZeroVariants(self) ==
    CASE self.type = "single" -> Paddings(self.element, self.kind)
      [] self.type = "list" ->
            {<<"[">> \o JoinTexts([i \in 1..Len(self.elements) |-> items[i]]) \o <<"]">> :
                items \in {f \in [1..Len(self.elements)
                                    -> UNION {Paddings(self.elements[i], self.kind) :
                                                 i \in 1..Len(self.elements)}] :
                             \A i \in 1..Len(self.elements) :
                                f[i] \in Paddings(self.elements[i], self.kind)}}
      [] self.type = "range" ->
            {a \o <<":">> \o b \o
                (IF count(self.expression, ":") = 2 THEN <<":">> \o st ELSE <<>>) :
                a \in BoundaryPaddings(self.start, self.kind),
                b \in BoundaryPaddings(self.stop, self.kind),
                st \in StepPaddings(self.step)}
      [] OTHER -> {self.expression}

\* the identifiers a selector names
NamedBy(self) ==
    CASE self.type = "single" -> {self.element}
      [] self.type = "list" -> Elems(self.elements)
      [] self.type = "range" -> {self.start, self.stop} \ {None}
      [] OTHER -> {}

\* two outcomes of select are the same selection
SameSelection(one, other) ==
    /\ one.exc = other.exc
    /\ one.exc = "None" => one.value = other.value
    /\ one.exc = "MissingElementError" =>
          one.element = other.element /\ one.elements = other.elements

\* the variant parses to a selector with the same content, and that selector
\* selects the same from the list
SameAsVariant(parsed) ==
    /\ ~Raised(parsed)
    /\ [parsed.value EXCEPT !.expression = sSel.expression] = sSel
    /\ SameSelection(select(parsed.value, sAvail), sResult)

\* C16: expressions that parse and differ only in the leading zeros of their
\* numeric tokens parse to selectors that name the same identifiers, each
\* zero-padded to width 4 (sequence) or 6 (frame), and that give identical
\* selections (the same list, or the same error) for every inventory;
\* normalize_sequence_selection_item and normalize_frame_selection_item pad
\* the same tokens to the same identifiers.
C16_LeadingZerosIrrelevant ==
    (sResult # NotRun /\ sSel.type \in {"single", "list", "range"}) =>
        /\ \A text \in ZeroVariants(sSel) : SameAsVariant(ParseSide(text, sSel.kind))
        /\ \A element \in NamedBy(sSel) :
              /\ Len(element) = (IF sSel.kind = "sequence" THEN 4 ELSE 6)
              /\ \A text \in Paddings(element, sSel.kind) :
                    normalize_selection_item(text, sSel.kind) = Return(element)

\* a list of two different numbers, which can be written in several ways,
\* has selected its two elements
C16_Witness ==
    /\ Evaluated("list")
    /\ sResult.exc = "None"
    /\ Len(sResult.value) = 2
    /\ sResult.value[1] # sResult.value[2]
    /\ Cardinality(ZeroVariants(sSel)) >= 9

-----------------------------------------------------------------------------
(* Claims about Parser.parse *)

Parsed == pResult # NotRun

Accepted == Parsed /\ pResult.exc = "None"

Rejected == Parsed /\ pResult.exc = "SelectionExpressionError"

\* s is a number of 1 to n digits
NumberText(s, n) == Len(s) \in 1..n /\ \A i \in 1..Len(s) : s[i] \in Digit

\* s is a comma-separated list of numbers of 1 to n digits
RECURSIVE ItemsText(_, _)
ItemsText(s, n) ==
    \/ NumberText(s, n)
    \/ \E i \in 2..(Len(s) - 1) :
          /\ s[i] = ","
          /\ NumberText(SubSeq(s, 1, i - 1), n)
          /\ ItemsText(SubSeq(s, i + 1, Len(s)), n)

ListText(s, n) ==
    /\ Len(s) >= 3
    /\ s[1] = "["
    /\ s[Len(s)] = "]"
    /\ ItemsText(SubSeq(s, 2, Len(s) - 1), n)

\* the ways to read s as start ':' stop or start ':' stop ':' step
RangeParts(s) ==
    {[start |-> SubSeq(s, 1, i - 1), stop |-> SubSeq(s, i + 1, Len(s)), step |-> <<>>] :
        i \in {k \in 1..Len(s) : s[k] = ":" /\ \A m \in 1..Len(s) : s[m] = ":" => m = k}}
    \cup
    {[start |-> SubSeq(s, 1, ij[1] - 1), stop |-> SubSeq(s, ij[1] + 1, ij[2] - 1),
      step |-> SubSeq(s, ij[2] + 1, Len(s))] :
        ij \in {kl \in (1..Len(s)) \X (1..Len(s)) :
                  /\ kl[1] < kl[2]
                  /\ \A m \in 1..Len(s) : s[m] = ":" <=> m \in {kl[1], kl[2]}}}

\* a step literal: left out, or 1 to 6 digits with or without a minus sign
StepText(s) ==
    \/ s = <<>>
    \/ NumberText(s, ElementTemplateMax)
    \/ Len(s) > 1 /\ s[1] = "-" /\ NumberText(Tail(s), ElementTemplateMax)

\* the step a literal denotes
StepValue(s) ==
    IF s = <<>> THEN 1
    ELSE IF s[1] = "-" THEN 0 - DigitsToInt(Tail(s))
    ELSE DigitsToInt(s)

\* a range RangeSelector takes: the step is not zero, and two given
\* boundaries do not run against the direction of the step
ValidRangeText(s, n) ==
    \E r \in RangeParts(s) :
       /\ r.start = <<>> \/ NumberText(r.start, n)
       /\ r.stop = <<>> \/ NumberText(r.stop, n)
       /\ StepText(r.step)
       /\ StepValue(r.step) # 0
       /\ (r.start # <<>> /\ r.stop # <<>> /\ StepValue(r.step) > 0)
             => DigitsToInt(r.start) <= DigitsToInt(r.stop)
       /\ (r.start # <<>> /\ r.stop # <<>> /\ StepValue(r.step) < 0)
             => DigitsToInt(r.start) >= DigitsToInt(r.stop)

\* s without the one line feed that may end it
Chomp(s) ==
    IF Len(s) > 0 /\ s[Len(s)] = "\n" THEN SubSeq(s, 1, Len(s) - 1) ELSE s

\* the grammar of one side: a range is one the range rules admit (a step that
\* is not zero, boundaries not against the direction of the step)
StatedSide(s, kind) ==
    \/ NumberText(s, max_length(kind))
    \/ ListText(s, max_length(kind))
    \/ ValidRangeText(s, max_length(kind))
    \/ s = <<"*">>
    \/ kind = "sequence" /\ s \in {DATA, DATA_SYN}

\* the sides Parser.parse takes: a list or a range may be followed by one
\* line feed, which the '$' of its pattern lets through
DecidedSide(s, kind) ==
    StatedSide(s, kind) \/ ListText(Chomp(s), max_length(kind))
                        \/ ValidRangeText(Chomp(s), max_length(kind))

\* the two sides of an expression with exactly one '/'
Sides(e) ==
    {[sequence |-> SubSeq(e, 1, i - 1), frame |-> SubSeq(e, i + 1, Len(e))] :
        i \in {k \in 1..Len(e) : e[k] = "/" /\ \A m \in 1..Len(e) : e[m] = "/" => m = k}}

\* C7: Parser.parse accepts an expression if and only if it has exactly one
\* '/', both sides are non-empty, the sequence side is 1 to 4 digits, a
\* bracketed comma-separated list of such items, a range start?:stop?(:step?)?
\* with such boundaries, '*', 'data' or 'data_syn', and the frame side is one of
\* these forms with 1 to 6 digits and without 'data'/'data_syn'; every other
\* string is rejected with SelectionExpressionError.
C7_AcceptsExactlyTheGrammar ==
    Parsed =>
        /\ Accepted <=> \E h \in Sides(pExpr) :
                           /\ h.sequence # <<>> /\ h.frame # <<>>
                           /\ StatedSide(h.sequence, "sequence")
                           /\ StatedSide(h.frame, "frame")
        /\ Accepted \/ Rejected

\* what Parser.parse decides: it accepts exactly the expressions with one '/'
\* whose sides are sides it takes, and rejects the others with
\* SelectionExpressionError
ParseAcceptsDecidedSides ==
    Parsed =>
        /\ Accepted <=> \E h \in Sides(pExpr) :
                           /\ DecidedSide(h.sequence, "sequence")
                           /\ DecidedSide(h.frame, "frame")
        /\ Accepted \/ Rejected

\* a written range with two boundaries that fit the axis and a step that is
\* not zero has been parsed
TwoBoundaryRange ==
    /\ Parsed
    /\ pInput.form = "range"
    /\ pInput.slashes = 1
    /\ NumberText(pInput.start, max_length(pInput.axis))
    /\ NumberText(pInput.stop, max_length(pInput.axis))
    /\ StepText(pInput.step)
    /\ StepValue(pInput.step) # 0

\* C8 as stated: with both start and stop given, a range that does not satisfy
\* step > 0 => start < stop and step < 0 => start > stop (numeric comparison)
\* is rejected when it is parsed.
C8_OriginalStrictOrder ==
    TwoBoundaryRange =>
        (~(/\ StepValue(pInput.step) > 0 => DigitsToInt(pInput.start) < DigitsToInt(pInput.stop)
           /\ StepValue(pInput.step) < 0 => DigitsToInt(pInput.start) > DigitsToInt(pInput.stop))
            => ~Accepted)

\* C8 as amended: with both start and stop given, a range is rejected when it
\* is parsed if and only if step > 0 and start > stop, or step < 0 and
\* start < stop (numeric comparison of the un-padded values); Parser.parse
\* reports the ValueError of the constructor as a SelectionExpressionError
\* raised from it. A range with start equal to stop is accepted.
C8_RejectedAgainstDirection ==
    TwoBoundaryRange =>
        /\ ~Accepted <=>
              \/ /\ StepValue(pInput.step) > 0
                 /\ DigitsToInt(pInput.start) > DigitsToInt(pInput.stop)
              \/ /\ StepValue(pInput.step) < 0
                 /\ DigitsToInt(pInput.start) < DigitsToInt(pInput.stop)
        /\ ~Accepted => (Rejected /\ pResult.cause = "ValueError")
        /\ DigitsToInt(pInput.start) = DigitsToInt(pInput.stop) => Accepted

\* a range with a negative step whose start is below its stop has been
\* rejected because of a ValueError
C8_Witness ==
    /\ TwoBoundaryRange
    /\ StepValue(pInput.step) < 0
    /\ DigitsToInt(pInput.start) < DigitsToInt(pInput.stop)
    /\ Rejected
    /\ pResult.cause = "ValueError"

\* the selector parsed for the side the input wrote
ParsedSide ==
    IF pInput.axis = "sequence" THEN pResult.value.sequence_selector
    ELSE pResult.value.frame_selector

\* C9: a range whose step literal denotes zero ('0' or '-0'), on either axis,
\* is rejected when the expression is parsed; a range that is accepted has
\* step 1 when the literal is absent and a negative step when the literal has
\* a minus sign.
C9_StepLiteral ==
    (Parsed /\ pInput.form = "range" /\ pInput.slashes = 1) =>
        /\ pInput.step \in {<<"0">>, <<"-", "0">>} => Rejected
        /\ Accepted =>
              /\ ParsedSide.type = "range"
              /\ ParsedSide.step = StepValue(pInput.step)
              /\ pInput.step = <<>> => ParsedSide.step = 1
              /\ (pInput.step # <<>> /\ pInput.step[1] = "-") => ParsedSide.step < 0

\* a frame-side range written with the step '-0' has been rejected
C9_Witness ==
    /\ Rejected
    /\ pInput.form = "range"
    /\ pInput.axis = "frame"
    /\ pInput.slashes = 1
    /\ pInput.step = <<"-", "0">>
    /\ pInput.start = <<>>
    /\ pInput.stop = <<>>

-----------------------------------------------------------------------------
(* Claims about DescriptorCreator.get_descriptors, checked under Spec *)

Done == pc = "done"

Succeeded == Done /\ result.exc = "None"

\* the dataset as it lies on disk
FramesOnDisk(sequence) == {file.index : file \in dataset[sequence]}

KindsOnDisk(sequence, frame) ==
    {file.kindoffile : file \in {g \in dataset[sequence] : g.index = frame}}

\* the expected kinds of file the frame lacks, in the order color, depth, label, box
KindsMissing(sequence, frame) ==
    LET Lacking(kind) == kind \notin KindsOnDisk(sequence, frame)
    IN SelectSeq(expected_kind_of_files(sequence), Lacking)

CompleteOnDisk(sequence, frame) ==
    frame \in FramesOnDisk(sequence) /\ KindsMissing(sequence, frame) = <<>>

\* what the sequence selector of the i-th expression produces from the
\* sequences of the dataset, and its frame selector from the frames of a sequence
SequenceSelection(i) ==
    select(selectors[i].sequence_selector, sorted(DOMAIN dataset))

FrameSelection(i, sequence) ==
    select(selectors[i].frame_selector, sorted(FramesOnDisk(sequence)))

\* the incomplete frames the i-th frame selector selects in the sequence
SelectedIncomplete(i, sequence) ==
    IF Raised(FrameSelection(i, sequence)) THEN {}
    ELSE {f \in Elems(FrameSelection(i, sequence).value) : ~CompleteOnDisk(sequence, f)}

\* in the sequence the i-th frame selector succeeds and selects whole frames only
CleanIn(i, sequence) ==
    ~Raised(FrameSelection(i, sequence)) /\ SelectedIncomplete(i, sequence) = {}

\* the i-th expression resolves without an error
ResolvesCleanly(i) ==
    /\ ~Raised(SequenceSelection(i))
    /\ \A j \in 1..Len(SequenceSelection(i).value) :
          CleanIn(i, SequenceSelection(i).value[j])

\* C2: on success get_descriptors returns the concatenation of the descriptors
\* over the expressions in their given order, within an expression over the
\* selected sequences in the order the sequence selector produced them, within
\* a sequence over the frames in the order the frame selector produced them:
\* one descriptor per selected occurrence, nothing removed, nothing re-sorted.
C2_ConcatenationInOrder ==
    Succeeded =>
        result.value =
            Cat([i \in 1..Len(selectors) |->
                Cat([j \in 1..Len(SequenceSelection(i).value) |->
                    LET sequence == SequenceSelection(i).value[j]
                        frames == FrameSelection(i, sequence).value
                    IN [k \in 1..Len(frames) |-> Descriptor(sequence, frames[k])]])])

\* a batch of two expressions has succeeded with a descriptor that occurs
\* twice and with two frames of one sequence in descending order
C2_Witness ==
    /\ Succeeded
    /\ Len(expressions) = 2
    /\ \E a, b \in 1..Len(result.value) : a < b /\ result.value[a] = result.value[b]
    /\ \E a \in 1..(Len(result.value) - 1) :
          /\ result.value[a].frame_sequence = result.value[a + 1].frame_sequence
          /\ StrLess(result.value[a + 1].frame, result.value[a].frame)

\* the selected sequences of the i-th expression in which a frame selection
\* that succeeds holds an incomplete frame
WithSelectedIncomplete(i) ==
    IF Raised(SequenceSelection(i)) THEN {}
    ELSE {sequence \in Elems(SequenceSelection(i).value) :
             SelectedIncomplete(i, sequence) # {}}

\* the result is the files-missing error for a selected incomplete frame of
\* the sequence with exactly the kinds of file that frame lacks
NamesIncompleteFrameOf(i, sequence) ==
    /\ result.exc = "IOError"
    /\ result.text = "Files for frame missing"
    /\ result.sequence = sequence
    /\ result.frame \in SelectedIncomplete(i, sequence)
    /\ result.missing_files = KindsMissing(sequence, result.frame)

\* C3 as stated: if in any selected sequence the frame selector of a resolved
\* expression selects at least one incomplete frame, resolution fails with the
\* files-missing error naming such a sequence, a selected incomplete frame of
\* it and exactly that frame's missing kinds of file.
C3_OriginalAnySequence ==
    Done =>
        \A i \in 1..Len(calls) :
           WithSelectedIncomplete(i) # {}
              => \E sequence \in WithSelectedIncomplete(i) : NamesIncompleteFrameOf(i, sequence)

\* the first selected sequence of the i-th expression that is not clean
FirstUnclean(i) ==
    LET sequences == SequenceSelection(i).value
        j == CHOOSE j \in 1..Len(sequences) :
                /\ ~CleanIn(i, sequences[j])
                /\ \A m \in 1..(j - 1) : CleanIn(i, sequences[m])
    IN sequences[j]

\* C3 as amended: if the frame selector of a resolved expression selects at
\* least one incomplete frame in a selected sequence, and in every sequence
\* selected before that one it succeeds and selects complete frames only,
\* resolution fails with the files-missing error naming that sequence, one of
\* its selected incomplete frames and exactly that frame's missing kinds of
\* file; an incomplete frame inside a range or star selection is not skipped.
C3_FirstUncleanSequence ==
    Done =>
        \A i \in 1..Len(calls) :
           (/\ ~Raised(SequenceSelection(i))
            /\ ~ResolvesCleanly(i)
            /\ SelectedIncomplete(i, FirstUnclean(i)) # {})
              => NamesIncompleteFrameOf(i, FirstUnclean(i))

\* a range over the frames has run into an incomplete frame in the second of
\* the selected sequences, the first being clean
C3_Witness ==
    /\ Done
    /\ calls # <<>>
    /\ selectors[Len(calls)].frame_selector.type = "range"
    /\ ~Raised(SequenceSelection(Len(calls)))
    /\ Len(SequenceSelection(Len(calls)).value) >= 2
    /\ CleanIn(Len(calls), SequenceSelection(Len(calls)).value[1])
    /\ NamesIncompleteFrameOf(Len(calls), SequenceSelection(Len(calls)).value[2])

\* C4: the first error met while parsing or resolving ends get_descriptors with
\* that error: with an expression that does not parse nothing is resolved at
\* all; otherwise the selectors are resolved in order up to the first that
\* fails, no descriptor list is returned, and no later selector is resolved.
C4_FailFast ==
    Done =>
        IF \E i \in 1..Len(expressions) : Raised(parse(expressions[i]))
        THEN /\ result.exc = "ValueError"
             /\ calls = <<>>
        ELSE LET failing == {i \in 1..Len(selectors) : ~ResolvesCleanly(i)}
             IN IF failing = {}
                THEN /\ Succeeded
                     /\ calls = [i \in 1..Len(selectors) |-> i]
                ELSE /\ Raised(result)
                     /\ \E last \in failing :
                           /\ \A i \in failing : last <= i
                           /\ calls = [i \in 1..last |-> i]

\* the first of two selectors has failed and the second, which would resolve,
\* has not been resolved
C4_Witness ==
    /\ Done
    /\ Raised(result)
    /\ Len(selectors) = 2
    /\ calls = <<1>>
    /\ ResolvesCleanly(2)

-----------------------------------------------------------------------------
(* Claims about YcbVideoLoader.frames, checked under SpecLoader *)

\* C6: an error of the selections (bad syntax, a frame sequence or a frame
\* that is not there, a frame with missing files) is raised by the call that
\* makes the iterator, so that an advance of the iterator only makes a frame
\* or ends the iteration.
C6_SelectionErrorsRaisedByTheCall ==
    /\ pc # "call" /\ Raised(get_descriptors_from_selections(expressions)) => Raised(result)
    /\ \A k \in 1..Len(nexts) : nexts[k].exc \in {"None", "StopIteration"}

-----------------------------------------------------------------------------
(* Claims about parse_selection_expressions, checked under Spec *)

\* the positions, counted from 1, of the expressions that do not parse
Unparseable == {i \in 1..Len(expressions) : Raised(parse(expressions[i]))}

\* C17: parse_selection_expressions parses the expressions in list order and
\* on the first one that does not parse raises an error that names that
\* expression and its position (index, counted from 0) in the list, returning
\* no selectors; when all parse it returns one selector per expression.
C17_FirstFailureIdentified ==
    pc \in {"resolve", "done"} =>
        IF Unparseable = {}
        THEN Len(selectors) = Len(expressions)
        ELSE /\ pc = "done"
             /\ selectors = <<>>
             /\ result.exc = "ValueError"
             /\ \E first \in Unparseable :
                   /\ \A i \in Unparseable : first <= i
                   /\ result.expression = expressions[first]
                   /\ result.index = first - 1

-----------------------------------------------------------------------------
(* Claims about the errors of the resolver, checked under Spec *)

\* the selector resolved last has failed in the evaluator: on the sequence
\* axis, or on the frame axis in the first sequence that is not clean
SequenceAxisFailed == Done /\ calls # <<>> /\ Raised(SequenceSelection(Len(calls)))

FrameAxisFailed ==
    /\ Done
    /\ calls # <<>>
    /\ ~Raised(SequenceSelection(Len(calls)))
    /\ ~ResolvesCleanly(Len(calls))
    /\ Raised(FrameSelection(Len(calls), FirstUnclean(Len(calls))))

SequenceFailure == SequenceSelection(Len(calls))

FrameFailure == FrameSelection(Len(calls), FirstUnclean(Len(calls)))

IsSequenceNotAvailable(outcome) ==
    outcome.exc = "IOError" /\ outcome.text = "Frame sequence is not available"

IsFrameNotAvailable(outcome) ==
    outcome.exc = "IOError" /\ outcome.text = "Frame is not available"

\* C18 as stated: every failure of the evaluator during resolution, be it
\* MissingElementError or EmptySelectionError, is surfaced as the IOError
\* 'sequence not available' when the sequence selector fails and as the
\* IOError 'frame not available', naming the sequence, when the frame
\* selector fails.
C18_OriginalAllNotAvailable ==
    /\ (SequenceAxisFailed
          /\ SequenceFailure.exc \in {"MissingElementError", "EmptySelectionError"})
          => IsSequenceNotAvailable(result)
    /\ (FrameAxisFailed
          /\ FrameFailure.exc \in {"MissingElementError", "EmptySelectionError"})
          => (IsFrameNotAvailable(result)
                /\ result.sequence = FirstUnclean(Len(calls)))

\* C18 as amended: only a MissingElementError of the evaluator is surfaced as
\* an IOError: 'Frame sequence is not available' naming the missing element
\* when the sequence selector fails, 'Frame is not available' naming the
\* sequence and the missing element when the frame selector fails.  An
\* EmptySelectionError, and the ValueError for an empty inventory, leave the
\* resolver as they are.
C18_OnlyMissingElementWrapped ==
    /\ SequenceAxisFailed =>
          IF SequenceFailure.exc = "MissingElementError"
          THEN /\ IsSequenceNotAvailable(result)
               /\ result.sequence = SequenceFailure.element
          ELSE /\ result = SequenceFailure
               /\ result.exc \in {"EmptySelectionError", "ValueError"}
    /\ FrameAxisFailed =>
          IF FrameFailure.exc = "MissingElementError"
          THEN /\ IsFrameNotAvailable(result)
               /\ result.sequence = FirstUnclean(Len(calls))
               /\ result.frame = FrameFailure.element
          ELSE /\ result = FrameFailure
               /\ result.exc \in {"EmptySelectionError", "ValueError"}

\* a range over the frames whose start equals its stop has ended the
\* resolution with its EmptySelectionError
C18_Witness ==
    /\ FrameAxisFailed
    /\ FrameFailure.exc = "EmptySelectionError"
    /\ selectors[Len(calls)].frame_selector.start # None
    /\ result.exc = "EmptySelectionError"

-----------------------------------------------------------------------------
(* Claims about FrameAccessObject, checked under SpecAccess *)

LastCall == calls[Len(calls)]

\* the last call on the object was of this kind
LastWas(op) == calls # <<>> /\ LastCall.op = op

\* the position is one of the descriptor list, counted from 0
InRange(at) == at.type = "int" /\ at.value \in {p - 1 : p \in DOMAIN descriptors}

\* the outcome is what reading the frame of the descriptor gives: the frame
\* with the normalized name of the descriptor, or the IOError for its files
IsFrameOf(outcome, descriptor) ==
    /\ outcome = FrameAccessor_get_frame(descriptor)
    /\ outcome.exc \in {"None", "IOError"}
    /\ outcome.exc = "None" =>
          /\ int(outcome.value.description.frame) = int(descriptor.frame)
          /\ outcome.value.description.frame_sequence \in DOMAIN dataset

\* what an indexed access has to give
IndexedAccessAsClaimed ==
    LastWas("getitem") =>
        /\ InRange(LastCall.at) =>
              /\ LastCall.materialized = <<descriptors[LastCall.at.value + 1]>>
              /\ IsFrameOf(result, descriptors[LastCall.at.value + 1])
        /\ (LastCall.at.type = "int" /\ ~InRange(LastCall.at)) =>
              /\ result = Raise("ValueError")
              /\ LastCall.materialized = <<>>
        /\ LastCall.at.type # "int" =>
              /\ result = Raise("TypeError")
              /\ LastCall.materialized = <<>>

LenAsClaimed ==
    LastWas("len") =>
        /\ result.exc = "None"
        /\ result.value = Cardinality(DOMAIN descriptors)
        /\ LastCall.materialized = <<>>

\* the step is a call of len() or an indexed access
AccessStep ==
    /\ Len(calls') = Len(calls) + 1
    /\ calls'[Len(calls')].op \in {"len", "getitem"}

\* C19: indexed access gives the frame of the descriptor at position i (one
\* call of get_frame for that descriptor) exactly when i is an int with
\* 0 <= i < len; every other int, negative ones included, fails with
\* ValueError and an index that is not an int fails with TypeError; len() is
\* the number of descriptors held; neither call changes the descriptor list.
C19_BoundsCheckedIndexing ==
    /\ [](IndexedAccessAsClaimed /\ LenAsClaimed)
    /\ [][AccessStep => descriptors' = descriptors]_vars

\* the index -1 on a list of two descriptors has failed with ValueError
C19_Witness ==
    /\ LastWas("getitem")
    /\ LastCall.at = IntIndex(-1)
    /\ Len(descriptors) = 2
    /\ result = Raise("ValueError")

\* the positions in the log of the calls of next(), in their order
NextCalls ==
    LET at == {k \in 1..Len(calls) : calls[k].op = "next"}
        nth(n) == CHOOSE k \in at : Cardinality({j \in at : j < k}) = n - 1
    IN [n \in 1..Cardinality(at) |-> calls[nth(n)]]

\* C20: iteration over the frame access object is lazy and ordered: building
\* the object and calling iter() read no frame; the k-th next() hands exactly
\* the k-th descriptor to get_frame, once, and gives its frame; a failure to
\* read the k-th frame is raised by the k-th next(), after the frames of all
\* earlier descriptors have been given; the next() after the last descriptor
\* reads nothing and ends the iteration.
C20_LazyOrderedIteration ==
    /\ \A k \in 1..Len(calls) : calls[k].op = "iter" => calls[k].materialized = <<>>
    /\ pc = "built" => nexts = <<>>
    /\ Len(NextCalls) = Len(nexts)
    /\ Len(nexts) <= Len(descriptors) + 1
    /\ \A k \in 1..Len(nexts) :
          IF k <= Len(descriptors)
          THEN /\ NextCalls[k].materialized = <<descriptors[k]>>
               /\ IsFrameOf(nexts[k], descriptors[k])
               /\ \A j \in 1..(k - 1) : nexts[j].exc = "None"
               /\ Raised(nexts[k]) => k = Len(nexts) /\ pc = "exhausted"
          ELSE /\ NextCalls[k].materialized = <<>>
               /\ nexts[k] = StopIteration

\* the second next() has failed for the second descriptor, whose files are
\* not all there, after the first has given the frame of the first
C20_Witness ==
    /\ Len(nexts) = 2
    /\ nexts[1].exc = "None"
    /\ nexts[2].exc = "IOError"
    /\ NextCalls[2].materialized = <<descriptors[2]>>

-----------------------------------------------------------------------------
(* Shuffle claims *)

\* the positions in the log of the calls of this kind
CallsOf(op) == {k \in 1..Len(calls) : calls[k].op = op}

StepOf(op) == Len(calls') = Len(calls) + 1 /\ calls'[Len(calls')].op = op

\* the calls of shuffle() on the object in use: those after the last build
ShufflesOfObject ==
    {k \in CallsOf("shuffle") : \A b \in CallsOf("build") : b < k}

\* the iteration over the object has run to its end
IterationComplete == nexts # <<>> /\ nexts[Len(nexts)] = StopIteration

\* the calls of next() that gave the frame of this descriptor
Yielded(descriptor) ==
    {k \in 1..Len(nexts) : nexts[k].exc = "None" /\ nexts[k].value.description = descriptor}

\* a complete iteration has given the frame of every descriptor exactly once
EachYieldedOnce ==
    IterationComplete =>
        \A at \in DOMAIN descriptors : Cardinality(Yielded(descriptors[at])) = 1

\* C22: the descriptor order of a frame access object is shuffled at most
\* once and only before its iteration begins; once the iteration has started
\* the descriptor list and its order do not change; a complete iteration
\* gives every descriptor of the list exactly once.
C22_ShuffledOnceBeforeIteration ==
    /\ [](Cardinality(ShufflesOfObject) <= 1 /\ EachYieldedOnce)
    /\ [][StepOf("shuffle") => pc = "built"]_vars
    /\ [][(pc \in {"iterating", "exhausted"} /\ ~StepOf("build"))
             => descriptors' = descriptors]_vars

-----------------------------------------------------------------------------
(* Empty list of expressions *)

\* C23: get_descriptors on an empty list of selection expressions fails with
\* ValueError: it neither returns an empty list of descriptors nor resolves
\* anything.
C23_EmptyExpressionListFails ==
    (expressions = <<>> /\ pc = "done") =>
        /\ result.exc = "ValueError"
        /\ calls = <<>>

-----------------------------------------------------------------------------
(* What a MissingElementError carries, checked under SpecSelect *)

\* the call of select has failed with MissingElementError
MissingElementRaised == sResult # NotRun /\ sResult.exc = "MissingElementError"

\* the identifier is written as the parser normalizes it
IsNormalized(element, kind) ==
    \/ kind = "sequence" /\ element = DATA_SYN
    \/ isdigit(element) /\ Len(element) = max_length(kind)

\* the identifier the selector asks for that the list does not hold: the
\* element, the first such element of a list, data_syn, or the start of a
\* range and else its stop
MissingIdentifier(basis) ==
    CASE sSel.type = "single" -> sSel.element
      [] sSel.type = "list" ->
            sSel.elements[CHOOSE i \in 1..Len(sSel.elements) :
                             /\ sSel.elements[i] \notin Elems(basis)
                             /\ \A j \in 1..(i - 1) : sSel.elements[j] \in Elems(basis)]
      [] sSel.type = "data_syn" -> DATA_SYN
      [] sSel.type = "range" ->
            IF Truthy(sSel.start) /\ sSel.start \notin Elems(basis)
            THEN sSel.start ELSE sSel.stop

\* C24 as stated: a MissingElementError of any selector carries the missing
\* identifier in its normalized form and the full list of available
\* identifiers that was passed to select.
C24_OriginalCarriesListPassed ==
    MissingElementRaised =>
        /\ sResult.element = MissingIdentifier(sAvail)
        /\ IsNormalized(sResult.element, sSel.kind)
        /\ sResult.elements = sAvail

\* the list a selector looks its identifiers up in
LookupList ==
    IF sSel.type = "range" /\ sSel.kind = "sequence" THEN NumericOnly(sAvail) ELSE sAvail

\* C24: a MissingElementError of a selector (single, list element, data_syn,
\* range start or range stop, on either axis) carries the missing identifier
\* in its normalized form and the list the identifier was looked up in: the
\* list passed to select, which a range on the sequence axis first reduces to
\* its numeric identifiers.
C24_CarriesLookupList ==
    MissingElementRaised =>
        /\ sResult.element = MissingIdentifier(LookupList)
        /\ sResult.element \notin Elems(LookupList)
        /\ IsNormalized(sResult.element, sSel.kind)
        /\ sResult.elements = LookupList

\* a range on the sequence axis has failed for its stop on a list that holds
\* data_syn, and the error carries the list without data_syn
C24_Witness ==
    /\ MissingElementRaised
    /\ sSel.type = "range"
    /\ sSel.kind = "sequence"
    /\ sSel.start = None
    /\ sResult.element = sSel.stop
    /\ DATA_SYN \in Elems(sAvail)
    /\ Len(sResult.elements) = Len(sAvail) - 1

-----------------------------------------------------------------------------
(* Incomplete frames named as boundaries or elements, checked under        *)
(* SpecBoundary                                                            *)

\* the frames the i-th frame selector names: the boundaries of a range, the
\* elements of a list
NamedFrames(i) ==
    LET selector == selectors[i].frame_selector
    IN CASE selector.type = "range" ->
                {f \in {selector.start, selector.stop} : Truthy(f)}
         [] selector.type = "list" -> Elems(selector.elements)
         [] OTHER -> {}

\* the named frames that exist in the sequence and are incomplete
NamedIncomplete(i, sequence) ==
    {f \in NamedFrames(i) : f \in FramesOnDisk(sequence) /\ ~CompleteOnDisk(sequence, f)}

\* the i-th expression selects sequences, and in the first of them its frame
\* side names an incomplete frame
NamesIncompleteInFirst(i) ==
    /\ ~Raised(SequenceSelection(i))
    /\ NamedIncomplete(i, SequenceSelection(i).value[1]) # {}

-----------------------------------------------------------------------------
(* Classification of the frames of a sequence, checked under SpecFrameSets *)

\* the files of the directory that _FILE_PATTERN matches
MatchingFiles == {file \in dataset[SequenceRead] : file.extension \in {"png", "txt", "mat"}}

\* the frame ids with at least one matching file
FrameIdsFound == {file.index : file \in MatchingFiles}

\* the kinds of file a frame has to have in this sequence
ExpectedKinds ==
    {"color", "depth", "label", "meta"}
        \cup (IF SequenceRead = DATA_SYN THEN {} ELSE {"box"})

\* the kinds of the matching files of the frame
KindsPresent(frame) == {file.kindoffile : file \in {g \in MatchingFiles : g.index = frame}}

\* C26: get_available_frame_sets classifies each frame id that has at least
\* one matching file as complete exactly when all expected kinds of file
\* (color, depth, label, meta, and box unless the sequence is data_syn) are
\* present, and otherwise as incomplete with the list of exactly its missing
\* kinds, each once; the complete frames and the keys of the incomplete
\* mapping are disjoint and together are the frame ids found.
C26_FramesClassified ==
    pc = "done" =>
        LET complete == result.value.complete
            incomplete == result.value.incomplete
        IN /\ complete \cap DOMAIN incomplete = {}
           /\ complete \cup DOMAIN incomplete = FrameIdsFound
           /\ \A frame \in FrameIdsFound :
                 frame \in complete <=> ExpectedKinds \subseteq KindsPresent(frame)
           /\ \A frame \in DOMAIN incomplete :
                 /\ Elems(incomplete[frame]) = ExpectedKinds \ KindsPresent(frame)
                 /\ Len(incomplete[frame]) = Cardinality(Elems(incomplete[frame]))

\* in data_syn a frame without box file is complete and a frame that lacks
\* color and meta is incomplete with these two kinds, while a file of another
\* kind and a file the pattern does not match lie in the directory
C26_Witness ==
    /\ pc = "done"
    /\ SequenceRead = DATA_SYN
    /\ result.value.complete = {format(2, FrameWidth)}
    /\ "box" \notin KindsPresent(format(2, FrameWidth))
    /\ DOMAIN result.value.incomplete = {format(1, FrameWidth)}
    /\ Elems(result.value.incomplete[format(1, FrameWidth)]) = {"color", "meta"}
    /\ "posecnn" \in KindsPresent(format(1, FrameWidth))
    /\ \E file \in dataset[SequenceRead] : file.extension = "jpg"

-----------------------------------------------------------------------------
(* Frame effect of select, checked under SpecReselect *)

-----------------------------------------------------------------------------
(* Selected frames and the incomplete-frame mapping, checked under Spec *)

\* what the frame selector of the i-th expression selects from the frames
\* the resolver offers it in the sequence: the complete and the incomplete ones
SelectionOffered(i, sequence) ==
    select(selectors[i].frame_selector,
           sorted(get_available_frame_sets(sequence).complete
                     \cup DOMAIN get_available_frame_sets(sequence).incomplete))

\* C28: in the resolver the complete frames and the keys of the
\* incomplete-frame mapping are disjoint, every frame that a successful
\* evaluation of the frame selector returns is complete or a key of the
\* mapping, so that the missing kinds of file of a selected frame that is not
\* complete can always be looked up, and get_descriptors ends with a
\* descriptor list, a ValueError, an IOError or an EmptySelectionError, never
\* with a KeyError.
C28_SelectedFramesAreKnown ==
    /\ \A sequence \in DOMAIN dataset :
          get_available_frame_sets(sequence).complete
             \cap DOMAIN get_available_frame_sets(sequence).incomplete = {}
    /\ \A i \in 1..Len(calls) :
          ~Raised(SequenceSelection(i)) =>
             \A sequence \in Elems(SequenceSelection(i).value) \cap DOMAIN dataset :
                ~Raised(SelectionOffered(i, sequence)) =>
                   Elems(SelectionOffered(i, sequence).value)
                      \subseteq (get_available_frame_sets(sequence).complete
                                    \cup DOMAIN get_available_frame_sets(sequence).incomplete)
    /\ Done => result.exc \in {"None", "ValueError", "IOError", "EmptySelectionError"}
    /\ (Done /\ result.exc = "IOError" /\ result.text = "Files for frame missing") =>
          /\ result.frame \in DOMAIN get_available_frame_sets(result.sequence).incomplete
          /\ result.missing_files =
                get_available_frame_sets(result.sequence).incomplete[result.frame]

\* a list on the frame axis has been evaluated with success and holds an
\* incomplete frame, whose missing kinds of file are in the error
C28_Witness ==
    /\ Done
    /\ Len(calls) = 1
    /\ selectors[1].frame_selector.type = "list"
    /\ result.exc = "IOError"
    /\ result.text = "Files for frame missing"
    /\ ~Raised(SelectionOffered(1, result.sequence))
    /\ result.frame \in Elems(SelectionOffered(1, result.sequence).value)
    /\ result.missing_files # <<>>

-----------------------------------------------------------------------------
(* Memoisation of the frame sets, checked under SpecCache *)

\* the frames the resolver offers a frame selector, given the frame sets
FramesOffered(sets) == sorted(sets.complete \cup DOMAIN sets.incomplete)

\* the descriptors of a resolution that selects these sequences and, in
\* each, selects from the frame sets this memo holds for it
DescriptorsFromMemo(selector, sequences, memoised) ==
    Cat([j \in 1..Len(sequences) |->
        LET frames == select(selector.frame_selector,
                             FramesOffered(memoised[sequences[j]])).value
        IN [k \in 1..Len(frames) |-> Descriptor(sequences[j], frames[k])]])

-----------------------------------------------------------------------------
(* Empty selections, checked under Spec *)

\* the expression just resolved is the one at this place of the batch
JustResolved == Len(calls')

\* the data selector of the expression finds nothing but data_syn
DataOnSyntheticOnly(i) ==
    /\ selectors[i].sequence_selector.type = "data"
    /\ DOMAIN dataset = {DATA_SYN}

\* the lists the selectors of the i-th expression return where they succeed
SelectionsReturned(i) ==
    LET sequences == SequenceSelection(i)
    IN (IF Raised(sequences) THEN {} ELSE {sequences.value})
       \cup (IF Raised(sequences) THEN {}
             ELSE {FrameSelection(i, sequence).value :
                      sequence \in {name \in Elems(sequences.value) \cap DOMAIN dataset :
                                       ~Raised(FrameSelection(i, name))}})

\* C30 as stated: every selector that succeeds returns a non-empty list, and
\* every expression that resolves without error adds at least one descriptor
\* to the result.
C30_OriginalNeverEmpty ==
    [][Len(calls') > Len(calls) =>
          /\ <<>> \notin SelectionsReturned(JustResolved)
          /\ pc' = "resolve" => Len(descriptors') > Len(descriptors)
      ]_vars

\* C30: a selector of any kind but data that succeeds returns a non-empty
\* list, and an expression whose sequence side is not `data` adds at least
\* one descriptor when it resolves without error; the data selector returns
\* the empty list, without failing, exactly when data_syn is the only
\* sequence available, and an expression with that sequence side then
\* resolves without error whatever its frame side and adds no descriptor.
C30_EmptyOnlyForDataOnSyntheticOnly ==
    [][Len(calls') > Len(calls) =>
          IF DataOnSyntheticOnly(JustResolved)
          THEN /\ SequenceSelection(JustResolved) = Return(<<>>)
               /\ pc' = "resolve"
               /\ descriptors' = descriptors
          ELSE /\ <<>> \notin SelectionsReturned(JustResolved)
               /\ pc' = "resolve" => Len(descriptors') > Len(descriptors)
      ]_vars

\* a batch of `data/...` and a second expression has resolved on a dataset
\* that holds data_syn only: the one descriptor returned is the second
\* expression's
C30_Witness ==
    /\ pc = "done"
    /\ result.exc = "None"
    /\ Len(selectors) = 2
    /\ DataOnSyntheticOnly(1)
    /\ Len(result.value) = 1
    /\ result.value[1].frame_sequence = DATA_SYN
====
